---- MODULE Spec2Model ----
(***************************************************************************)
(* Legal text simplification pipeline of backend/utils/simplifyLegalText.js*)
(*                                                                         *)
(* A text is a sequence of atoms.  An atom is either one non-word          *)
(* character (space, line break, punctuation, an accented letter) or a run *)
(* of word characters [A-Za-z0-9_] written as a string.  Two adjacent word *)
(* atoms are two pieces of one word (<<"w", "hereby">> is the word         *)
(* "whereby"), so the regular expressions of the source are matched atom   *)
(* by atom, with \b holding exactly between a word atom and a non-word     *)
(* atom (or a text end).                                                   *)
(***************************************************************************)
EXTENDS Integers, Sequences, FiniteSets, TLC

VARIABLES
  env,          \* process.env: OPENAI_API_KEY, HUGGING_FACE_API_KEY
  kind,         \* entry point called: "simplify" or "batch"
  texts,        \* batchSimplifyTexts: texts (a single call: <<text>>)
  options,      \* the options object: method, aiProvider, preserveStructure
  i,            \* batchSimplifyTexts: loop index (0-based, as in the source)
  results,      \* batchSimplifyTexts: results
  pc,           \* position of the caller
  basicResult,  \* simplifyLegalText: basicResult of the running call
  inflight,     \* axios.post requests sent and not yet settled
  sent,         \* every request issued, in order, with the item it is for
  ranBasic,     \* the items whose call has run basicSimplification
  answers,      \* how the requests settled, in order
  ret,          \* outcomes of the finished simplifyLegalText calls, in order
  arg,          \* pure functions: the input text
  val,          \* pure functions: the computed output
  fn,           \* pure functions: which function has been applied
  again,        \* pure functions: the output of applying it to its own output
  simplifiedSentences,  \* breakDownLongSentences: the sentences it has pushed
  callers,      \* concurrent calls: the locals of each simplifyLegalText call
  net           \* concurrent calls: axios.post requests not yet settled

vars == << env, kind, texts, options, i, results, pc, basicResult, inflight,
           sent, ranBasic, answers, ret, arg, val, fn, again, simplifiedSentences,
           callers, net >>

orchVars == << env, kind, texts, options, i, results, pc, basicResult,
               inflight, sent, ranBasic, answers, ret >>

pureVars == << arg, val, fn, again, simplifiedSentences >>

concVars == << callers, net >>

None == "none"

\* JavaScript undefined as the value of an environment variable
Undefined == "undefined"

\* JavaScript undefined where a text is expected (a missing argument, a
\* missing field of a response)
UndefinedText == <<"(undefined)">>

-----------------------------------------------------------------------------
(* Characters and strings *)

\* \s of the regular expressions, and what String.prototype.trim strips
WhiteSpace == {" ", "\n", "\t"}

\* the delimiter class [.!?]
SentenceEnd == {".", "!", "?"}

\* atoms that are a single character outside [A-Za-z0-9_]
NonWordAtoms == WhiteSpace \cup SentenceEnd \cup {",", "-", "à", "À", "é"}

IsWordAtom(a) == a \notin NonWordAtoms

\* String.prototype.toLowerCase on the atoms of the inputs (the 'i' flag)
Lower(a) ==
  CASE a = "SHALL" -> "shall"
    [] a = "Shall" -> "shall"
    [] a = "PRIOR" -> "prior"
    [] a = "Force" -> "force"
    [] a = "MAY" -> "may"
    [] a = "BE" -> "be"
    [] a = "BY" -> "by"
    [] a = "À" -> "à"
    [] OTHER -> a

\* a run of word characters of this many characters that contains no
\* pattern of the tables
LongWord == "loremipsum"

LongWordLen == 148

\* a shorter run of word characters of this many characters
MidWord == "dolorsitamet"

MidWordLen == 130

\* String.prototype.length
RECURSIVE Length(_)
Length(t) ==
  IF t = <<>> THEN 0
  ELSE (IF Head(t) = LongWord THEN LongWordLen
        ELSE IF Head(t) = MidWord THEN MidWordLen
        ELSE Len(Head(t))) + Length(Tail(t))

RECURSIVE TrimStart(_)
TrimStart(t) ==
  IF t # <<>> /\ Head(t) \in WhiteSpace THEN TrimStart(Tail(t)) ELSE t

RECURSIVE TrimEnd(_)
TrimEnd(t) ==
  IF t # <<>> /\ t[Len(t)] \in WhiteSpace THEN TrimEnd(SubSeq(t, 1, Len(t) - 1)) ELSE t

\* String.prototype.trim
Trim(t) == TrimEnd(TrimStart(t))

\* the regular expression assertion \b between t[p-1] and t[p]
WordAt(t, p) == p >= 1 /\ p <= Len(t) /\ IsWordAtom(t[p])

Boundary(t, p) == WordAt(t, p - 1) # WordAt(t, p)

\* a case-insensitive literal matches at position p
MatchAt(t, pat, p) ==
  /\ p + Len(pat) - 1 <= Len(t)
  /\ \A k \in 1..Len(pat) : Lower(t[p + k - 1]) = pat[k]

\* new RegExp(`\\b${pat}\\b`, 'gi') matches at position p
WordMatchAt(t, pat, p) ==
  MatchAt(t, pat, p) /\ Boundary(t, p) /\ Boundary(t, p + Len(pat))

\* String.prototype.replace with a global case-insensitive literal pattern,
\* wb telling whether the pattern is wrapped in \b ... \b
RECURSIVE ReplaceFrom(_, _, _, _, _)
ReplaceFrom(t, pat, rep, wb, p) ==
  IF p > Len(t) THEN <<>>
  ELSE IF (IF wb THEN WordMatchAt(t, pat, p) ELSE MatchAt(t, pat, p))
       THEN rep \o ReplaceFrom(t, pat, rep, wb, p + Len(pat))
       ELSE <<t[p]>> \o ReplaceFrom(t, pat, rep, wb, p + 1)

ReplaceAll(t, pat, rep, wb) == ReplaceFrom(t, pat, rep, wb, 1)

\* String.prototype.includes
Includes(t, s) == \E p \in 1..Len(t) : p + Len(s) - 1 <= Len(t) /\ SubSeq(t, p, p + Len(s) - 1) = s

\* String.prototype.split with a string separator
RECURSIVE SplitString(_, _, _, _)
SplitString(t, sep, p, cur) ==
  IF p > Len(t) THEN <<cur>>
  ELSE IF p + Len(sep) - 1 <= Len(t) /\ SubSeq(t, p, p + Len(sep) - 1) = sep
       THEN <<cur>> \o SplitString(t, sep, p + Len(sep), <<>>)
       ELSE SplitString(t, sep, p + 1, Append(cur, t[p]))

\* String.prototype.split with the pattern of a run of the characters cls
RECURSIVE SplitRuns(_, _, _, _)
SplitRuns(t, cls, p, cur) ==
  IF p > Len(t) THEN <<cur>>
  ELSE IF t[p] \in cls
       THEN IF p < Len(t) /\ t[p + 1] \in cls
            THEN SplitRuns(t, cls, p + 1, cur)
            ELSE <<cur>> \o SplitRuns(t, cls, p + 1, <<>>)
       ELSE SplitRuns(t, cls, p + 1, Append(cur, t[p]))

\* Array.prototype.join(' ')
RECURSIVE JoinSpace(_)
JoinSpace(ss) ==
  IF ss = <<>> THEN <<>>
  ELSE IF Len(ss) = 1 THEN ss[1]
  ELSE ss[1] \o <<" ">> \o JoinSpace(Tail(ss))

-----------------------------------------------------------------------------
(* The static tables *)

legalTermsMap ==
  << << <<"heretofore">>, <<"before", " ", "this">> >>,
     << <<"hereinafter">>, <<"from", " ", "now", " ", "on">> >>,
     << <<"whereas">>, <<"since">> >>,
     << <<"hereby">>, <<"by", " ", "this", " ", "document">> >>,
     << <<"therein">>, <<"in", " ", "that">> >>,
     << <<"thereof">>, <<"of", " ", "that">> >>,
     << <<"hereunder">>, <<"under", " ", "this", " ", "agreement">> >>,
     << <<"notwithstanding">>, <<"despite">> >>,
     << <<"aforementioned">>, <<"mentioned", " ", "before">> >>,
     << <<"subsequent">>, <<"later">> >>,
     << <<"prior">>, <<"before">> >>,
     << <<"pursuant", " ", "to">>, <<"according", " ", "to">> >>,
     << <<"in", " ", "lieu", " ", "of">>, <<"instead", " ", "of">> >>,
     << <<"forthwith">>, <<"immediately">> >>,
     << <<"ipso", " ", "facto">>, <<"by", " ", "the", " ", "fact", " ", "itself">> >>,
     << <<"inter", " ", "alia">>, <<"among", " ", "other", " ", "things">> >>,
     << <<"vis", "-", "à", "-", "vis">>, <<"in", " ", "relation", " ", "to">> >>,
     << <<"force", " ", "majeure">>, <<"unforeseeable", " ", "circumstances">> >>,
     << <<"caveat", " ", "emptor">>, <<"buyer", " ", "beware">> >>,
     << <<"quid", " ", "pro", " ", "quo">>, <<"something", " ", "for", " ", "something">> >>,
     << <<"sine", " ", "qua", " ", "non">>, <<"essential", " ", "requirement">> >>,
     << <<"ad", " ", "hoc">>, <<"for", " ", "this", " ", "specific", " ", "purpose">> >>,
     << <<"bona", " ", "fide">>, <<"genuine">> >>,
     << <<"pro", " ", "rata">>, <<"proportionally">> >>,
     << <<"status", " ", "quo">>, <<"current", " ", "situation">> >>,
     << <<"cease", " ", "and", " ", "desist">>, <<"stop">> >>,
     << <<"null", " ", "and", " ", "void">>, <<"cancelled">> >>,
     << <<"in", " ", "perpetuity">>, <<"forever">> >>,
     << <<"indemnify">>, <<"protect", " ", "from", " ", "loss">> >> >>

sentencePatterns ==
  << << <<"shall", " ", "be", " ", "deemed", " ", "to", " ", "be">>, <<"is", " ", "considered">> >>,
     << <<"in", " ", "the", " ", "event", " ", "that">>, <<"if">> >>,
     << <<"for", " ", "the", " ", "purpose", " ", "of">>, <<"to">> >>,
     << <<"with", " ", "respect", " ", "to">>, <<"about">> >>,
     << <<"in", " ", "accordance", " ", "with">>, <<"following">> >>,
     << <<"in", " ", "connection", " ", "with">>, <<"related", " ", "to">> >>,
     << <<"subject", " ", "to", " ", "the", " ", "provisions", " ", "of">>, <<"following", " ", "the", " ", "rules", " ", "in">> >>,
     << <<"without", " ", "prejudice", " ", "to">>, <<"without", " ", "affecting">> >> >>

\* const conjunctions, in list order
conjunctions ==
  << <<",", " ", "and", " ">>,
     <<",", " ", "but", " ">>,
     <<",", " ", "or", " ">>,
     <<",", " ", "however", " ">>,
     <<",", " ", "therefore", " ">>,
     <<",", " ", "furthermore", " ">> >>

\* the sentence length above which a sentence is broken down
MaxSentenceLength == 150

-----------------------------------------------------------------------------
(* basicSimplification and its stages *)

\* Object.entries(legalTermsMap).forEach: entries k .. 29 applied in order
\* (the test on Len(replaced) only makes TLC compute each pass before the
\* next one starts; both branches give the text after all passes)
RECURSIVE ReplaceTerms(_, _)
ReplaceTerms(t, k) ==
  LET replaced == ReplaceAll(t, legalTermsMap[k][1], legalTermsMap[k][2], TRUE)
  IN  IF k > Len(legalTermsMap) THEN t
      ELSE IF Len(replaced) = 0 THEN replaced ELSE ReplaceTerms(replaced, k + 1)

\* sentencePatterns.forEach: rules k .. 8 applied in order (computed pass
\* by pass, as ReplaceTerms)
RECURSIVE ReplacePatterns(_, _)
ReplacePatterns(t, k) ==
  LET replaced == ReplaceAll(t, sentencePatterns[k][1], sentencePatterns[k][2], FALSE)
  IN  IF k > Len(sentencePatterns) THEN t
      ELSE IF Len(replaced) = 0 THEN replaced ELSE ReplacePatterns(replaced, k + 1)

\* BreakSentence without the test of the length
BreakSentenceAnyLength(sentence) ==
  LET trimmedSentence == Trim(sentence)
      found == {k \in 1..Len(conjunctions) : Includes(trimmedSentence, conjunctions[k])}
      first == CHOOSE k \in found : \A m \in found : k <= m
      parts == SplitString(trimmedSentence, conjunctions[first], 1, <<>>)
  IN  IF Len(trimmedSentence) = 0 THEN <<>>
      ELSE IF found # {}
           THEN [k \in 1..Len(parts) |-> Trim(parts[k]) \o <<".">>]
           ELSE << trimmedSentence \o <<".">> >>

\* BreakSentence splitting on the last listed marker that occurs
BreakSentenceLastListed(sentence) ==
  LET trimmedSentence == Trim(sentence)
      found == {k \in 1..Len(conjunctions) : Includes(trimmedSentence, conjunctions[k])}
      last == CHOOSE k \in found : \A m \in found : k >= m
      parts == SplitString(trimmedSentence, conjunctions[last], 1, <<>>)
  IN  IF Len(trimmedSentence) = 0 THEN <<>>
      ELSE IF Length(trimmedSentence) > MaxSentenceLength /\ found # {}
           THEN [k \in 1..Len(parts) |-> Trim(parts[k]) \o <<".">>]
           ELSE << trimmedSentence \o <<".">> >>

\* the body of sentences.forEach: what one sentence pushes
BreakSentence(sentence) ==
  LET trimmedSentence == Trim(sentence)
      found == {k \in 1..Len(conjunctions) : Includes(trimmedSentence, conjunctions[k])}
      first == CHOOSE k \in found : \A m \in found : k <= m
      parts == SplitString(trimmedSentence, conjunctions[first], 1, <<>>)
  IN  IF Len(trimmedSentence) = 0 THEN <<>>
      ELSE IF Length(trimmedSentence) > MaxSentenceLength /\ found # {}
           THEN [k \in 1..Len(parts) |-> Trim(parts[k]) \o <<".">>]
           ELSE << trimmedSentence \o <<".">> >>

RECURSIVE BreakAll(_)
BreakAll(sentences) ==
  IF sentences = <<>> THEN <<>>
  ELSE BreakSentence(Head(sentences)) \o BreakAll(Tail(sentences))

\* the sentences pushed to simplifiedSentences
SimplifiedSentences(t) == BreakAll(SplitRuns(t, SentenceEnd, 1, <<>>))

breakDownLongSentences(t) == JoinSpace(SimplifiedSentences(t))

-----------------------------------------------------------------------------
(* Spelling of the atoms, for the patterns and counts that read characters *)

\* the characters of a lower-case atom
Spell(a) ==
  CASE a = "a" -> <<"a">>
    [] a = "about" -> <<"a", "b", "o", "u", "t">>
    [] a = "accordance" -> <<"a", "c", "c", "o", "r", "d", "a", "n", "c", "e">>
    [] a = "according" -> <<"a", "c", "c", "o", "r", "d", "i", "n", "g">>
    [] a = "ad" -> <<"a", "d">>
    [] a = "affecting" -> <<"a", "f", "f", "e", "c", "t", "i", "n", "g">>
    [] a = "aforementioned" -> <<"a", "f", "o", "r", "e", "m", "e", "n", "t", "i", "o", "n", "e", "d">>
    [] a = "agreement" -> <<"a", "g", "r", "e", "e", "m", "e", "n", "t">>
    [] a = "alia" -> <<"a", "l", "i", "a">>
    [] a = "among" -> <<"a", "m", "o", "n", "g">>
    [] a = "and" -> <<"a", "n", "d">>
    [] a = "any" -> <<"a", "n", "y">>
    [] a = "are" -> <<"a", "r", "e">>
    [] a = "be" -> <<"b", "e">>
    [] a = "beautiful" -> <<"b", "e", "a", "u", "t", "i", "f", "u", "l">>
    [] a = "before" -> <<"b", "e", "f", "o", "r", "e">>
    [] a = "beware" -> <<"b", "e", "w", "a", "r", "e">>
    [] a = "bona" -> <<"b", "o", "n", "a">>
    [] a = "but" -> <<"b", "u", "t">>
    [] a = "buyer" -> <<"b", "u", "y", "e", "r">>
    [] a = "by" -> <<"b", "y">>
    [] a = "cancelled" -> <<"c", "a", "n", "c", "e", "l", "l", "e", "d">>
    [] a = "cannot" -> <<"c", "a", "n", "n", "o", "t">>
    [] a = "cat" -> <<"c", "a", "t">>
    [] a = "caveat" -> <<"c", "a", "v", "e", "a", "t">>
    [] a = "cease" -> <<"c", "e", "a", "s", "e">>
    [] a = "circumstances" -> <<"c", "i", "r", "c", "u", "m", "s", "t", "a", "n", "c", "e", "s">>
    [] a = "comply" -> <<"c", "o", "m", "p", "l", "y">>
    [] a = "connection" -> <<"c", "o", "n", "n", "e", "c", "t", "i", "o", "n">>
    [] a = "considered" -> <<"c", "o", "n", "s", "i", "d", "e", "r", "e", "d">>
    [] a = "current" -> <<"c", "u", "r", "r", "e", "n", "t">>
    [] a = "deemed" -> <<"d", "e", "e", "m", "e", "d">>
    [] a = "desist" -> <<"d", "e", "s", "i", "s", "t">>
    [] a = "despite" -> <<"d", "e", "s", "p", "i", "t", "e">>
    [] a = "document" -> <<"d", "o", "c", "u", "m", "e", "n", "t">>
    [] a = "ed" -> <<"e", "d">>
    [] a = "emptor" -> <<"e", "m", "p", "t", "o", "r">>
    [] a = "ends" -> <<"e", "n", "d", "s">>
    [] a = "essential" -> <<"e", "s", "s", "e", "n", "t", "i", "a", "l">>
    [] a = "event" -> <<"e", "v", "e", "n", "t">>
    [] a = "fact" -> <<"f", "a", "c", "t">>
    [] a = "facto" -> <<"f", "a", "c", "t", "o">>
    [] a = "fide" -> <<"f", "i", "d", "e">>
    [] a = "following" -> <<"f", "o", "l", "l", "o", "w", "i", "n", "g">>
    [] a = "for" -> <<"f", "o", "r">>
    [] a = "force" -> <<"f", "o", "r", "c", "e">>
    [] a = "forever" -> <<"f", "o", "r", "e", "v", "e", "r">>
    [] a = "forthwith" -> <<"f", "o", "r", "t", "h", "w", "i", "t", "h">>
    [] a = "from" -> <<"f", "r", "o", "m">>
    [] a = "furthermore" -> <<"f", "u", "r", "t", "h", "e", "r", "m", "o", "r", "e">>
    [] a = "genuine" -> <<"g", "e", "n", "u", "i", "n", "e">>
    [] a = "hello" -> <<"h", "e", "l", "l", "o">>
    [] a = "hereby" -> <<"h", "e", "r", "e", "b", "y">>
    [] a = "hereinafter" -> <<"h", "e", "r", "e", "i", "n", "a", "f", "t", "e", "r">>
    [] a = "heretofore" -> <<"h", "e", "r", "e", "t", "o", "f", "o", "r", "e">>
    [] a = "hereunder" -> <<"h", "e", "r", "e", "u", "n", "d", "e", "r">>
    [] a = "hoc" -> <<"h", "o", "c">>
    [] a = "however" -> <<"h", "o", "w", "e", "v", "e", "r">>
    [] a = "if" -> <<"i", "f">>
    [] a = "immediately" -> <<"i", "m", "m", "e", "d", "i", "a", "t", "e", "l", "y">>
    [] a = "in" -> <<"i", "n">>
    [] a = "indemnify" -> <<"i", "n", "d", "e", "m", "n", "i", "f", "y">>
    [] a = "instead" -> <<"i", "n", "s", "t", "e", "a", "d">>
    [] a = "inter" -> <<"i", "n", "t", "e", "r">>
    [] a = "ipso" -> <<"i", "p", "s", "o">>
    [] a = "is" -> <<"i", "s">>
    [] a = "itself" -> <<"i", "t", "s", "e", "l", "f">>
    [] a = "later" -> <<"l", "a", "t", "e", "r">>
    [] a = "lease" -> <<"l", "e", "a", "s", "e">>
    [] a = "lieu" -> <<"l", "i", "e", "u">>
    [] a = "loss" -> <<"l", "o", "s", "s">>
    [] a = "majeure" -> <<"m", "a", "j", "e", "u", "r", "e">>
    [] a = "mar" -> <<"m", "a", "r">>
    [] a = "may" -> <<"m", "a", "y">>
    [] a = "mentioned" -> <<"m", "e", "n", "t", "i", "o", "n", "e", "d">>
    [] a = "must" -> <<"m", "u", "s", "t">>
    [] a = "non" -> <<"n", "o", "n">>
    [] a = "not" -> <<"n", "o", "t">>
    [] a = "notwithstanding" -> <<"n", "o", "t", "w", "i", "t", "h", "s", "t", "a", "n", "d", "i", "n", "g">>
    [] a = "now" -> <<"n", "o", "w">>
    [] a = "null" -> <<"n", "u", "l", "l">>
    [] a = "of" -> <<"o", "f">>
    [] a = "ok" -> <<"o", "k">>
    [] a = "on" -> <<"o", "n">>
    [] a = "or" -> <<"o", "r">>
    [] a = "other" -> <<"o", "t", "h", "e", "r">>
    [] a = "party" -> <<"p", "a", "r", "t", "y">>
    [] a = "pay" -> <<"p", "a", "y">>
    [] a = "pays" -> <<"p", "a", "y", "s">>
    [] a = "perpetuity" -> <<"p", "e", "r", "p", "e", "t", "u", "i", "t", "y">>
    [] a = "plain" -> <<"p", "l", "a", "i", "n">>
    [] a = "prejudice" -> <<"p", "r", "e", "j", "u", "d", "i", "c", "e">>
    [] a = "prior" -> <<"p", "r", "i", "o", "r">>
    [] a = "pro" -> <<"p", "r", "o">>
    [] a = "proportionally" -> <<"p", "r", "o", "p", "o", "r", "t", "i", "o", "n", "a", "l", "l", "y">>
    [] a = "protect" -> <<"p", "r", "o", "t", "e", "c", "t">>
    [] a = "provisions" -> <<"p", "r", "o", "v", "i", "s", "i", "o", "n", "s">>
    [] a = "purpose" -> <<"p", "u", "r", "p", "o", "s", "e">>
    [] a = "pursuant" -> <<"p", "u", "r", "s", "u", "a", "n", "t">>
    [] a = "qua" -> <<"q", "u", "a">>
    [] a = "quid" -> <<"q", "u", "i", "d">>
    [] a = "quo" -> <<"q", "u", "o">>
    [] a = "rata" -> <<"r", "a", "t", "a">>
    [] a = "related" -> <<"r", "e", "l", "a", "t", "e", "d">>
    [] a = "relation" -> <<"r", "e", "l", "a", "t", "i", "o", "n">>
    [] a = "rent" -> <<"r", "e", "n", "t">>
    [] a = "rents" -> <<"r", "e", "n", "t", "s">>
    [] a = "required" -> <<"r", "e", "q", "u", "i", "r", "e", "d">>
    [] a = "requirement" -> <<"r", "e", "q", "u", "i", "r", "e", "m", "e", "n", "t">>
    [] a = "respect" -> <<"r", "e", "s", "p", "e", "c", "t">>
    [] a = "rules" -> <<"r", "u", "l", "e", "s">>
    [] a = "shall" -> <<"s", "h", "a", "l", "l">>
    [] a = "signed" -> <<"s", "i", "g", "n", "e", "d">>
    [] a = "simple" -> <<"s", "i", "m", "p", "l", "e">>
    [] a = "since" -> <<"s", "i", "n", "c", "e">>
    [] a = "sine" -> <<"s", "i", "n", "e">>
    [] a = "situation" -> <<"s", "i", "t", "u", "a", "t", "i", "o", "n">>
    [] a = "something" -> <<"s", "o", "m", "e", "t", "h", "i", "n", "g">>
    [] a = "specific" -> <<"s", "p", "e", "c", "i", "f", "i", "c">>
    [] a = "status" -> <<"s", "t", "a", "t", "u", "s">>
    [] a = "stop" -> <<"s", "t", "o", "p">>
    [] a = "subject" -> <<"s", "u", "b", "j", "e", "c", "t">>
    [] a = "subsequent" -> <<"s", "u", "b", "s", "e", "q", "u", "e", "n", "t">>
    [] a = "tenant" -> <<"t", "e", "n", "a", "n", "t">>
    [] a = "terms" -> <<"t", "e", "r", "m", "s">>
    [] a = "text" -> <<"t", "e", "x", "t">>
    [] a = "that" -> <<"t", "h", "a", "t">>
    [] a = "the" -> <<"t", "h", "e">>
    [] a = "therefore" -> <<"t", "h", "e", "r", "e", "f", "o", "r", "e">>
    [] a = "therein" -> <<"t", "h", "e", "r", "e", "i", "n">>
    [] a = "thereof" -> <<"t", "h", "e", "r", "e", "o", "f">>
    [] a = "things" -> <<"t", "h", "i", "n", "g", "s">>
    [] a = "this" -> <<"t", "h", "i", "s">>
    [] a = "to" -> <<"t", "o">>
    [] a = "under" -> <<"u", "n", "d", "e", "r">>
    [] a = "unforeseeable" -> <<"u", "n", "f", "o", "r", "e", "s", "e", "e", "a", "b", "l", "e">>
    [] a = "vis" -> <<"v", "i", "s">>
    [] a = "void" -> <<"v", "o", "i", "d">>
    [] a = "w" -> <<"w">>
    [] a = "whereas" -> <<"w", "h", "e", "r", "e", "a", "s">>
    [] a = "will" -> <<"w", "i", "l", "l">>
    [] a = "with" -> <<"w", "i", "t", "h">>
    [] a = "without" -> <<"w", "i", "t", "h", "o", "u", "t">>
    [] a = "world" -> <<"w", "o", "r", "l", "d">>
    [] a = "x" -> <<"x">>
    [] a = "y" -> <<"y">>
    [] a = "à" -> <<"à">>
    [] a = LongWord -> [k \in 1..LongWordLen |-> "x"]
    [] OTHER -> <<a>>

\* the characters of a text, lower-cased
RECURSIVE Chars(_)
Chars(t) == IF t = <<>> THEN <<>> ELSE Spell(Lower(Head(t))) \o Chars(Tail(t))

-----------------------------------------------------------------------------
(* improveReadability *)

\* the last position of the run of word atoms that starts at p (p - 1 if none)
RECURSIVE WordRunEnd(_, _)
WordRunEnd(t, p) == IF WordAt(t, p) THEN WordRunEnd(t, p + 1) ELSE p - 1

\* the run t[p..q] matches \w+ed under the 'i' flag
MatchesWordEd(t, p, q) ==
  LET cs == Chars(SubSeq(t, p, q))
  IN  q >= p /\ Len(cs) >= 3 /\ cs[Len(cs) - 1] = "e" /\ cs[Len(cs)] = "d"

\* /shall be (\w+ed) by/gi matches at p: the position of the group's end, else 0
PassiveEnd(t, p) ==
  LET q == WordRunEnd(t, p + 4)
  IN  IF /\ MatchAt(t, <<"shall", " ", "be", " ">>, p)
         /\ MatchesWordEd(t, p + 4, q)
         /\ MatchAt(t, <<" ", "by">>, q + 1)
      THEN q ELSE 0

\* replace(/shall be (\w+ed) by/gi, 'will be $1 by')
RECURSIVE ReplacePassive(_, _)
ReplacePassive(t, p) ==
  IF p > Len(t) THEN <<>>
  ELSE IF PassiveEnd(t, p) # 0
       THEN <<"will", " ", "be", " ">> \o SubSeq(t, p + 4, PassiveEnd(t, p)) \o <<" ", "by">>
              \o ReplacePassive(t, PassiveEnd(t, p) + 3)
       ELSE <<t[p]>> \o ReplacePassive(t, p + 1)

\* passivePatterns.forEach
passivePatterns(t) ==
  LET t1 == ReplacePassive(t, 1)
      t2 == ReplaceAll(t1, <<"is", " ", "required", " ", "to", " ", "be">>, <<"must", " ", "be">>, FALSE)
  IN  ReplaceAll(t2, <<"are", " ", "required", " ", "to">>, <<"must">>, FALSE)

\* ModalVerbs with \b around shall
ModalVerbsWholeWord(t) ==
  ReplaceAll(ReplaceAll(t, <<"shall">>, <<"will">>, TRUE), <<"may", " ", "not">>, <<"cannot">>, FALSE)

\* replace(/shall/gi, 'will') then replace(/may not/gi, 'cannot')
ModalVerbs(t) ==
  ReplaceAll(ReplaceAll(t, <<"shall">>, <<"will">>, FALSE), <<"may", " ", "not">>, <<"cannot">>, FALSE)

\* replace(/\s+/g, ' ')
RECURSIVE CollapseSpaces(_)
CollapseSpaces(t) ==
  IF t = <<>> THEN <<>>
  ELSE IF Head(t) \in WhiteSpace
       THEN IF Len(t) > 1 /\ t[2] \in WhiteSpace
            THEN CollapseSpaces(Tail(t))
            ELSE <<" ">> \o CollapseSpaces(Tail(t))
       ELSE <<Head(t)>> \o CollapseSpaces(Tail(t))

improveReadability(t) == Trim(CollapseSpaces(ModalVerbs(passivePatterns(t))))

\* basicSimplification with the sentences broken down before the replacements
basicSimplificationSegmentsFirst(t) ==
  improveReadability(ReplacePatterns(ReplaceTerms(breakDownLongSentences(t), 1), 1))

\* the four stages in the order of their calls
basicSimplification(t) ==
  improveReadability(breakDownLongSentences(ReplacePatterns(ReplaceTerms(t, 1), 1)))

-----------------------------------------------------------------------------
(* The metrics of a result *)

Vowels == {"a", "e", "i", "o", "u", "y"}

\* the characters of [^laeiouy]
NotLVowel(c) == c \notin (Vowels \cup {"l"})

\* word.replace(/(?:[^laeiouy]es|ed|[^laeiouy]e)$/, ''), on lower-case characters
StripSuffix(w) ==
  LET n == Len(w)
  IN  IF n >= 3 /\ NotLVowel(w[n - 2]) /\ w[n - 1] = "e" /\ w[n] = "s" THEN SubSeq(w, 1, n - 3)
      ELSE IF n >= 2 /\ w[n - 1] = "e" /\ w[n] = "d" THEN SubSeq(w, 1, n - 2)
      ELSE IF n >= 2 /\ NotLVowel(w[n - 1]) /\ w[n] = "e" THEN SubSeq(w, 1, n - 2)
      ELSE w

\* replace(/^y/, '')
StripLeadingY(w) == IF w # <<>> /\ Head(w) = "y" THEN Tail(w) ELSE w

RECURSIVE VowelMatchesMaximalRuns(_, _)
VowelMatchesMaximalRuns(w, p) ==
  IF p > Len(w) THEN 0
  ELSE IF w[p] \in Vowels /\ (p = 1 \/ w[p - 1] \notin Vowels)
       THEN 1 + VowelMatchesMaximalRuns(w, p + 1)
       ELSE VowelMatchesMaximalRuns(w, p + 1)

\* the number of matches of /[aeiouy]{1,2}/g from position p on
RECURSIVE VowelMatches(_, _)
VowelMatches(w, p) ==
  IF p > Len(w) THEN 0
  ELSE IF w[p] \in Vowels
       THEN IF p < Len(w) /\ w[p + 1] \in Vowels
            THEN 1 + VowelMatches(w, p + 2)
            ELSE 1 + VowelMatches(w, p + 1)
       ELSE VowelMatches(w, p + 1)

\* countSyllables, on the lower-cased characters of the word
countSyllables(w) ==
  LET syllables == VowelMatches(StripLeadingY(StripSuffix(w)), 1)
  IN  IF Len(w) <= 3 THEN 1
      ELSE IF syllables = 0 THEN 1 ELSE syllables

\* filter(w => w.length > 0)
RECURSIVE NonEmpty(_)
NonEmpty(ss) ==
  IF ss = <<>> THEN <<>>
  ELSE IF Head(ss) # <<>> THEN <<Head(ss)>> \o NonEmpty(Tail(ss)) ELSE NonEmpty(Tail(ss))

\* filter(s => s.trim().length > 0)
RECURSIVE NonBlank(_)
NonBlank(ss) ==
  IF ss = <<>> THEN <<>>
  ELSE IF Len(Trim(Head(ss))) > 0 THEN <<Head(ss)>> \o NonBlank(Tail(ss)) ELSE NonBlank(Tail(ss))

\* words.reduce((count, word) => count + countSyllables(word), 0)
RECURSIVE SumSyllables(_)
SumSyllables(ws) ==
  IF ws = <<>> THEN 0 ELSE countSyllables(Chars(Head(ws))) + SumSyllables(Tail(ws))

\* Math.round of the quotient n / d for d > 0 (halves round up)
RoundDiv(n, d) == (2 * n + d) \div (2 * d)

ClampMissing(x) == x

\* Math.max(0, Math.min(100, x))
Clamp(x) == IF x < 0 THEN 0 ELSE IF x > 100 THEN 100 ELSE x

\* calculateReadabilityScore: 206.835 - 1.015 * (W / S) - 84.6 * (Y / W) as
\* the exact quotient of integers, rounded and clamped
calculateReadabilityScore(t) ==
  LET sentences == Len(NonBlank(SplitRuns(t, SentenceEnd, 1, <<>>)))
      wordList == NonEmpty(SplitRuns(t, WhiteSpace, 1, <<>>))
      words == Len(wordList)
      syllables == SumSyllables(wordList)
  IN  IF sentences = 0 \/ words = 0 THEN 0
      ELSE Clamp(RoundDiv(206835 * sentences * words - 1015 * words * words
                            - 84600 * syllables * sentences,
                          1000 * sentences * words))

\* controllers/docAIController.js: the number of matches of /[aeiouy]+/g in
\* w from position p on
RECURSIVE VowelRuns(_, _)
VowelRuns(w, p) ==
  IF p > Len(w) THEN 0
  ELSE IF w[p] \in Vowels /\ (p = 1 \/ w[p - 1] \notin Vowels)
       THEN 1 + VowelRuns(w, p + 1)
       ELSE VowelRuns(w, p + 1)

\* controllers/docAIController.js: countSyllables(text), over the tokens of
\* text.toLowerCase().split(/\s+/), the empty ones included
RECURSIVE docAICountSyllables(_)
docAICountSyllables(ws) ==
  IF ws = <<>> THEN 0
  ELSE (IF VowelRuns(Chars(Head(ws)), 1) = 0 THEN 1 ELSE VowelRuns(Chars(Head(ws)), 1))
         + docAICountSyllables(Tail(ws))

\* controllers/docAIController.js: calculateReadabilityScore(text)
docAICalculateReadabilityScore(t) ==
  LET sentences == Len(SplitRuns(t, SentenceEnd, 1, <<>>)) - 1
      words == Len(SplitRuns(t, WhiteSpace, 1, <<>>))
      syllables == docAICountSyllables(SplitRuns(t, WhiteSpace, 1, <<>>))
  IN  IF sentences = 0 \/ words = 0 THEN 0
      ELSE Clamp(RoundDiv(206835 * sentences * words - 1015 * words * words
                            - 84600 * syllables * sentences,
                          1000 * sentences * words))

\* the number of whitespace runs of the text, one less than its pieces
SplitWordCountSeparators(t) == Len(SplitRuns(t, WhiteSpace, 1, <<>>)) - 1

\* text.split(/\s+/).length
SplitWordCount(t) == Len(SplitRuns(t, WhiteSpace, 1, <<>>))

\* a division by zero gives NaN or an infinity, which Math.round returns as is
calculateWordCountReduction(originalText, simplifiedText) ==
  LET originalWords == SplitWordCount(originalText)
      simplifiedWords == SplitWordCount(simplifiedText)
  IN  IF originalWords # 0
      THEN RoundDiv((originalWords - simplifiedWords) * 100, originalWords)
      ELSE IF simplifiedWords = 0 THEN "NaN"
      ELSE IF simplifiedWords < 0 THEN "Infinity"
      ELSE "-Infinity"

preserveDocumentStructureRestoresOriginal(simplifiedText, originalText) == originalText

\* preserveDocumentStructure returns its first argument
preserveDocumentStructure(simplifiedText, originalText) == simplifiedText

-----------------------------------------------------------------------------
(* Remote providers *)

\* an environment variable is truthy: neither undefined nor the empty string
Truthy(v) == v # Undefined /\ v # ""

Return(v) == [type |-> "return", value |-> v]

Throw(m) == [type |-> "throw", message |-> m]

\* what axios.post can settle to for the chat completion request
OpenAIResponses ==
  { [settled |-> "rejected", message |-> "Request failed with status code 429"],
    [settled |-> "resolved",
     data |-> [choices |-> << [message |-> [content |-> <<" ", "tenant", " ", "pays", " ", "rent", ".", "\n">>]] >>]],
    [settled |-> "resolved", data |-> [error |-> "bad request"]] }

\* what axios.post can settle to for the inference request
HuggingFaceResponses ==
  { [settled |-> "rejected", message |-> "Request failed with status code 503"],
    [settled |-> "resolved", data |-> << [summary_text |-> <<" ", "tenant", " ", "pays", ".">>] >>],
    [settled |-> "resolved", data |-> << >>],
    [settled |-> "resolved", data |-> << [generated_text |-> <<"tenant", " ", "pays", ".">>] >>] }

Responses(provider) ==
  IF provider = "openai" THEN OpenAIResponses ELSE HuggingFaceResponses

\* response.data.choices[0].message.content.trim()
OpenAIContent(data) ==
  IF "choices" \notin DOMAIN data
  THEN Throw("Cannot read properties of undefined (reading '0')")
  ELSE IF data.choices = <<>>
       THEN Throw("Cannot read properties of undefined (reading 'message')")
       ELSE Return(Trim(data.choices[1].message.content))

\* response.data[0].summary_text
HuggingFaceSummary(data) ==
  IF data = <<>>
  THEN Throw("Cannot read properties of undefined (reading 'summary_text')")
  ELSE IF "summary_text" \in DOMAIN data[1]
       THEN Return(data[1].summary_text)
       ELSE Return(UndefinedText)

\* the catch block of a provider function: throw new Error(`... failed: ${error.message}`)
ProviderError(provider, message) ==
  IF provider = "openai"
  THEN Throw("AI simplification failed: " \o message)
  ELSE Throw("Hugging Face simplification failed: " \o message)

\* a provider function called without its key: the throw inside its try block
KeyMissing(provider) ==
  IF provider = "openai"
  THEN ProviderError(provider, "OpenAI API key not configured")
  ELSE ProviderError(provider, "Hugging Face API key not configured")

\* the key a provider function reads from process.env
ProviderKey(e, provider) ==
  IF provider = "openai" THEN e.OPENAI_API_KEY ELSE e.HUGGING_FACE_API_KEY

\* aiSimplification / huggingFaceSimplification once axios.post has settled
ProviderOutcome(provider, response) ==
  LET extracted == IF provider = "openai" THEN OpenAIContent(response.data)
                   ELSE HuggingFaceSummary(response.data)
  IN  IF response.settled = "rejected" THEN ProviderError(provider, response.message)
      ELSE IF extracted.type = "throw" THEN ProviderError(provider, extracted.message)
      ELSE extracted

-----------------------------------------------------------------------------
(* simplifyLegalText *)

\* Method with 'basic' as the default
MethodDefaultBasic(opts) == IF "method" \in DOMAIN opts THEN opts.method ELSE "basic"

\* the destructuring defaults of the options
Method(opts) == IF "method" \in DOMAIN opts THEN opts.method ELSE "hybrid"

AiProvider(opts) == IF "aiProvider" \in DOMAIN opts THEN opts.aiProvider ELSE "openai"

PreserveStructure(opts) ==
  IF "preserveStructure" \in DOMAIN opts THEN opts.preserveStructure ELSE TRUE

\* NoText without the trim: a whitespace-only text passes the validation
NoTextUntrimmed(text) == text = UndefinedText \/ text = <<>>

\* !text || text.trim().length === 0
NoText(text) == text = UndefinedText \/ text = <<>> \/ Len(Trim(text)) = 0

\* Branch with the break of case 'basic' missing: basic falls into hybrid
BranchBasicFallsThrough(method) == IF method = "ai" THEN "ai" ELSE "hybrid"

\* the branch of the switch a method value takes
Branch(method) == IF method \in {"basic", "ai"} THEN method ELSE "hybrid"

\* case 'ai': the provider function called
AiModeProvider(opts) ==
  IF AiProvider(opts) = "huggingface" THEN "huggingface" ELSE "openai"

\* HybridProvider with the two tests swapped: Hugging Face preferred
HybridProviderHuggingFaceFirst(e) ==
  IF Truthy(e.HUGGING_FACE_API_KEY) THEN "huggingface"
  ELSE IF Truthy(e.OPENAI_API_KEY) THEN "openai"
  ELSE None

\* case 'hybrid': the provider function called, None when no key is set
HybridProvider(e) ==
  IF Truthy(e.OPENAI_API_KEY) THEN "openai"
  ELSE IF Truthy(e.HUGGING_FACE_API_KEY) THEN "huggingface"
  ELSE None

\* the outer catch: throw new Error(`Text simplification failed: ${error.message}`)
\* SimplificationFailed rethrowing the error it caught as it is
SimplificationFailedRethrows(message) == Throw(message)

SimplificationFailed(message) == Throw("Text simplification failed: " \o message)

\* Result with the branch taken reported as the method
ResultReportsBranch(text, opts, simplifiedText) ==
  LET structured == IF PreserveStructure(opts)
                    THEN preserveDocumentStructure(simplifiedText, text)
                    ELSE simplifiedText
  IN  IF structured = UndefinedText
      THEN SimplificationFailed("Cannot read properties of undefined (reading 'trim')")
      ELSE Return([originalText |-> text,
                   simplifiedText |-> Trim(structured),
                   method |-> Branch(Method(opts)),
                   wordCountReduction |-> calculateWordCountReduction(text, structured),
                   readabilityScore |-> calculateReadabilityScore(structured)])

\* post-processing and the returned object
Result(text, opts, simplifiedText) ==
  LET structured == IF PreserveStructure(opts)
                    THEN preserveDocumentStructure(simplifiedText, text)
                    ELSE simplifiedText
  IN  IF structured = UndefinedText
      THEN SimplificationFailed("Cannot read properties of undefined (reading 'trim')")
      ELSE Return([originalText |-> text,
                   simplifiedText |-> Trim(structured),
                   method |-> Method(opts),
                   wordCountReduction |-> calculateWordCountReduction(text, structured),
                   readabilityScore |-> calculateReadabilityScore(structured)])

\* the inner catch of case 'hybrid': simplifiedText = basicResult
HybridFallback(outcome, basic) ==
  IF outcome.type = "throw" THEN Return(basic) ELSE outcome

\* AfterRemote with the fallback of hybrid mode applied in every mode
AfterRemoteFallsBack(text, opts, provider, response, basic) ==
  LET remote == ProviderOutcome(provider, response)
  IN  IF remote.type = "throw" THEN Result(text, opts, basicSimplification(text))
      ELSE Result(text, opts, remote.value)

\* simplifyLegalText from the settling of its request to its return or throw
AfterRemote(text, opts, provider, response, basic) ==
  LET remote == ProviderOutcome(provider, response)
      chosen == IF Branch(Method(opts)) = "hybrid" THEN HybridFallback(remote, basic) ELSE remote
  IN  IF chosen.type = "throw" THEN SimplificationFailed(chosen.message)
      ELSE Result(text, opts, chosen.value)

\* simplifyLegalText as a function of its arguments, of the environment and
\* of the settlement of the request it sends, if it sends one
SimplifyLegalText(text, opts, e, response) ==
  IF NoText(text) THEN SimplificationFailed("No text provided for simplification")
  ELSE IF Branch(Method(opts)) = "basic" THEN Result(text, opts, basicSimplification(text))
  ELSE IF Branch(Method(opts)) = "ai"
       THEN IF Truthy(ProviderKey(e, AiModeProvider(opts)))
            THEN AfterRemote(text, opts, AiModeProvider(opts), response, None)
            ELSE SimplificationFailed(KeyMissing(AiModeProvider(opts)).message)
  ELSE IF HybridProvider(e) = None THEN Result(text, opts, basicSimplification(text))
  ELSE AfterRemote(text, opts, HybridProvider(e), response, basicSimplification(text))

-----------------------------------------------------------------------------
(* The callers: one simplifyLegalText call, or one batchSimplifyTexts call *)

\* batchSimplifyTexts: the entry pushed for item index
BatchEntry(index, text, outcome) ==
  IF outcome.type = "return"
  THEN [index |-> index, success |-> TRUE,
        originalText |-> outcome.value.originalText,
        simplifiedText |-> outcome.value.simplifiedText,
        method |-> outcome.value.method,
        wordCountReduction |-> outcome.value.wordCountReduction,
        readabilityScore |-> outcome.value.readabilityScore]
  ELSE [index |-> index, success |-> FALSE, error |-> outcome.message, originalText |-> text]

\* Settle without the try/catch of the loop: a throwing item ends the batch
SettleAbortsOnThrow(outcome) ==
  /\ ret' = Append(ret, outcome)
  /\ IF kind = "batch" /\ outcome.type = "return"
     THEN /\ results' = Append(results, BatchEntry(i, texts[i + 1], outcome))
          /\ i' = i + 1
          /\ pc' = IF i + 1 < Len(texts) THEN "call" ELSE "return"
     ELSE /\ pc' = "done"
          /\ UNCHANGED << results, i >>

\* the running call settles: a single call is over, a batch pushes and loops
Settle(outcome) ==
  /\ ret' = Append(ret, outcome)
  /\ IF kind = "batch"
     THEN /\ results' = Append(results, BatchEntry(i, texts[i + 1], outcome))
          /\ i' = i + 1
          /\ pc' = IF i + 1 < Len(texts) THEN "call" ELSE "return"
     ELSE /\ pc' = "done"
          /\ UNCHANGED << results, i >>

\* Send with the loop not awaiting the call: the next item starts at once
SendWithoutAwait(provider, payload) ==
  /\ inflight' = inflight \cup {[item |-> i, provider |-> provider, text |-> payload]}
  /\ sent' = Append(sent, [item |-> i, provider |-> provider, text |-> payload])
  /\ IF kind = "batch" /\ i + 1 < Len(texts)
     THEN pc' = "call" /\ i' = i + 1
     ELSE pc' = "await" /\ i' = i
  /\ UNCHANGED << results, ret >>

\* await axios.post(...): the call is suspended until the request settles
Send(provider, payload) ==
  /\ inflight' = inflight \cup {[item |-> i, provider |-> provider, text |-> payload]}
  /\ sent' = Append(sent, [item |-> i, provider |-> provider, text |-> payload])
  /\ pc' = "await"
  /\ UNCHANGED << i, results, ret >>

\* the validation throw
CallNoText ==
  /\ pc = "call"
  /\ NoText(texts[i + 1])
  /\ Settle(SimplificationFailed("No text provided for simplification"))
  /\ UNCHANGED << env, kind, texts, options, basicResult, inflight, sent, ranBasic, answers, pureVars, concVars >>

\* case 'basic'
CallBasic ==
  /\ pc = "call"
  /\ ~NoText(texts[i + 1])
  /\ Branch(Method(options)) = "basic"
  /\ ranBasic' = ranBasic \cup {i}
  /\ Settle(Result(texts[i + 1], options, basicSimplification(texts[i + 1])))
  /\ UNCHANGED << env, kind, texts, options, basicResult, inflight, sent, answers, pureVars, concVars >>

\* case 'ai' without the key of the provider
CallAiNoKey ==
  /\ pc = "call"
  /\ ~NoText(texts[i + 1])
  /\ Branch(Method(options)) = "ai"
  /\ ~Truthy(ProviderKey(env, AiModeProvider(options)))
  /\ Settle(SimplificationFailed(KeyMissing(AiModeProvider(options)).message))
  /\ UNCHANGED << env, kind, texts, options, basicResult, inflight, sent, ranBasic, answers, pureVars, concVars >>

\* case 'ai' up to the await of the request
CallAi ==
  /\ pc = "call"
  /\ ~NoText(texts[i + 1])
  /\ Branch(Method(options)) = "ai"
  /\ Truthy(ProviderKey(env, AiModeProvider(options)))
  /\ Send(AiModeProvider(options), texts[i + 1])
  /\ UNCHANGED << env, kind, texts, options, basicResult, ranBasic, answers, pureVars, concVars >>

\* case 'hybrid' with no key configured
CallHybridLocal ==
  /\ pc = "call"
  /\ ~NoText(texts[i + 1])
  /\ Branch(Method(options)) = "hybrid"
  /\ HybridProvider(env) = None
  /\ ranBasic' = ranBasic \cup {i}
  /\ basicResult' = basicSimplification(texts[i + 1])
  /\ Settle(Result(texts[i + 1], options, basicResult'))
  /\ UNCHANGED << env, kind, texts, options, inflight, sent, answers, pureVars, concVars >>

\* CallHybrid with the raw text given to the provider function
CallHybridSendsRaw ==
  /\ pc = "call"
  /\ ~NoText(texts[i + 1])
  /\ Branch(Method(options)) = "hybrid"
  /\ HybridProvider(env) # None
  /\ ranBasic' = ranBasic \cup {i}
  /\ basicResult' = basicSimplification(texts[i + 1])
  /\ Send(HybridProvider(env), texts[i + 1])
  /\ UNCHANGED << env, kind, texts, options, answers, pureVars, concVars >>

\* case 'hybrid' up to the await of the request
CallHybrid ==
  /\ pc = "call"
  /\ ~NoText(texts[i + 1])
  /\ Branch(Method(options)) = "hybrid"
  /\ HybridProvider(env) # None
  /\ ranBasic' = ranBasic \cup {i}
  /\ basicResult' = basicSimplification(texts[i + 1])
  /\ Send(HybridProvider(env), basicResult')
  /\ UNCHANGED << env, kind, texts, options, answers, pureVars, concVars >>

\* Resume with hybrid mode trying Hugging Face after a failed OpenAI call
ResumeFallsThrough(req, response) ==
  IF /\ Branch(Method(options)) = "hybrid"
     /\ req.provider = "openai"
     /\ ProviderOutcome(req.provider, response).type = "throw"
     /\ Truthy(env.HUGGING_FACE_API_KEY)
  THEN /\ inflight' = (inflight \ {req}) \cup
                        {[item |-> req.item, provider |-> "huggingface", text |-> req.text]}
       /\ sent' = Append(sent, [item |-> req.item, provider |-> "huggingface", text |-> req.text])
       /\ UNCHANGED << pc, i, results, ret >>
  ELSE /\ inflight' = inflight \ {req}
       /\ Settle(AfterRemote(texts[req.item + 1], options, req.provider, response, basicResult))
       /\ UNCHANGED sent

\* Resume with the settlement lost: the suspended call is never resumed
ResumeNever(req, response) ==
  /\ inflight' = inflight \ {req}
  /\ UNCHANGED << pc, i, results, ret, sent >>

\* the call resumes with the settled request and runs to its end
Resume(req, response) ==
  /\ inflight' = inflight \ {req}
  /\ Settle(AfterRemote(texts[req.item + 1], options, req.provider, response, basicResult))
  /\ UNCHANGED sent

\* a request settles
RemoteSettles ==
  /\ \E req \in inflight : \E response \in Responses(req.provider) :
       /\ answers' = Append(answers, [item |-> req.item, provider |-> req.provider,
                                       response |-> response])
       /\ Resume(req, response)
  /\ UNCHANGED << env, kind, texts, options, basicResult, ranBasic, pureVars, concVars >>

\* batchSimplifyTexts: the loop is over, return results
BatchReturn ==
  /\ pc = "return"
  /\ pc' = "done"
  /\ UNCHANGED << env, kind, texts, options, i, results, basicResult, inflight, sent,
                  ranBasic, answers, ret, pureVars, concVars >>

\* the variables of the pure functions and of the concurrent calls, unused
PureIdle ==
  /\ arg = <<>> /\ val = None /\ fn = "none" /\ again = None
  /\ simplifiedSentences = <<>>

ConcIdle == callers = <<>> /\ net = {}

\* the longest batch
MaxBatch == 3

\* the values of an environment variable
KeyValues == {Undefined, "", "sk-test"}

Envs == [OPENAI_API_KEY : KeyValues, HUGGING_FACE_API_KEY : {Undefined, "sk-test"}]

\* the options object, any of its properties left out
OptionSets ==
  { m @@ p @@ s :
      m \in {<<>>} \cup {"method" :> v : v \in {"basic", "ai", "hybrid", "fancy"}},
      p \in {<<>>} \cup {"aiProvider" :> v : v \in {"openai", "huggingface"}},
      s \in {<<>>} \cup {"preserveStructure" :> v : v \in BOOLEAN} }

\* the options objects of the batches
BatchOptionSets == { o \in OptionSets : DOMAIN o \subseteq {"method"} }

\* the texts of a single call
SingleTexts ==
  { UndefinedText, <<>>, <<" ", "\n">>,
    <<"the", " ", "party", " ", "shall", " ", "comply", ".">>,
    <<" ", "prior", " ", "agreement">>,
    <<"hello", " ", "world">>,
    <<"force", " ", "majeure", ".", " ">>,
    <<".", ".">> }

\* the texts of a batch
BatchTexts == { <<>>, <<"the", " ", "party", " ", "shall", " ", "comply", ".">> }

Batches == UNION { [1..n -> BatchTexts] : n \in 0..MaxBatch }

Init ==
  /\ env \in Envs
  /\ kind \in {"simplify", "batch"}
  /\ options \in IF kind = "simplify" THEN OptionSets ELSE BatchOptionSets
  /\ texts \in IF kind = "simplify" THEN { <<t>> : t \in SingleTexts } ELSE Batches
  /\ i = 0
  /\ results = <<>>
  /\ pc = IF texts = <<>> THEN "return" ELSE "call"
  /\ basicResult = None
  /\ inflight = {}
  /\ sent = <<>>
  /\ ranBasic = {}
  /\ answers = <<>>
  /\ ret = <<>>
  /\ PureIdle
  /\ ConcIdle

Next ==
  \/ CallNoText
  \/ CallBasic
  \/ CallAiNoKey
  \/ CallAi
  \/ CallHybridLocal
  \/ CallHybrid
  \/ RemoteSettles
  \/ BatchReturn

Spec == Init /\ [][Next]_vars

\* the steps the JavaScript engine runs by itself: the synchronous part of a
\* call up to its end or to its await, and the return of the batch
Runs ==
  \/ CallNoText
  \/ CallBasic
  \/ CallAiNoKey
  \/ CallAi
  \/ CallHybridLocal
  \/ CallHybrid
  \/ BatchReturn

\* a step of Runs as the control variables show it: the running code moves
\* on, to its await, to the next item or to its end
RunsStep ==
  /\ pc \in {"call", "return"}
  /\ pc' \in {"call", "await", "return", "done"}
  /\ i' \in {i, i + 1}
  /\ pc' # pc \/ i' # i

\* a step of RemoteSettles as the set of unanswered requests shows it
SettleStep == \E req \in inflight : inflight' = inflight \ {req}

\* the engine keeps running the code that can run, and every request sent
\* is eventually resolved or rejected by its provider
SpecLive == Spec /\ WF_<<pc, i>>(RunsStep) /\ WF_inflight(SettleStep)

-----------------------------------------------------------------------------
(* Inputs of the pure functions *)

\* the longest input, in phrases
MaxPhrases == 3

\* the phrases an input text is made of
Phrases ==
  { <<"force", " ", "majeure">>, <<"force", " ", " ", "majeure">>,
    <<"pursuant">>, <<"to">>, <<"for", " ", "the", " ", "purpose", " ", "of">>,
    <<"PRIOR">>, <<"w">>, <<" ">>, <<".">>, <<"shall">> }

RECURSIVE Concat(_)
Concat(ps) == IF ps = <<>> THEN <<>> ELSE Head(ps) \o Concat(Tail(ps))

BasicInputs ==
  { Concat(ps) : ps \in UNION { [1..n -> Phrases] : n \in 0..MaxPhrases } }

\* the variables of the caller, unused
OrchIdle ==
  /\ env = None /\ kind = None /\ texts = <<>> /\ options = <<>> /\ i = 0
  /\ results = <<>> /\ pc = "idle" /\ basicResult = None /\ inflight = {}
  /\ sent = <<>> /\ ranBasic = {} /\ answers = <<>> /\ ret = <<>>

\* a pure function is about to be applied to an input of the set inputs
InitPure(inputs) ==
  /\ arg \in inputs
  /\ val = None
  /\ fn = "none"
  /\ again = None
  /\ simplifiedSentences = <<>>
  /\ OrchIdle
  /\ ConcIdle

InitBasic == InitPure(BasicInputs)

ApplyBasic ==
  /\ fn = "none"
  /\ val' = basicSimplification(arg)
  /\ fn' = "basicSimplification"
  /\ UNCHANGED << arg, again, simplifiedSentences, orchVars, concVars >>

\* basicSimplification applied to its own output
ApplyBasicAgain ==
  /\ fn = "basicSimplification"
  /\ again' = basicSimplification(val)
  /\ fn' = "basicSimplification twice"
  /\ UNCHANGED << arg, val, simplifiedSentences, orchVars, concVars >>

NextBasic == ApplyBasic \/ ApplyBasicAgain

SpecBasic == InitBasic /\ [][NextBasic]_vars

-----------------------------------------------------------------------------
(* Inputs of calculateReadabilityScore *)

\* the most phrases a scored text is made of
MaxScorePhrases == 4

\* the phrases a scored text is made of
ScorePhrases ==
  { <<"a">>, <<"beautiful">>, <<"hello">>, <<" ">>, <<"\n">>, <<".">>, <<"!">> }

ScoreInputs ==
  UNION { { Concat(ps) : ps \in [1..n -> ScorePhrases] } : n \in 0..MaxScorePhrases }

InitScore == InitPure(ScoreInputs)

ApplyScore ==
  /\ fn = "none"
  /\ val' = calculateReadabilityScore(arg)
  /\ fn' = "calculateReadabilityScore"
  /\ UNCHANGED << arg, again, simplifiedSentences, orchVars, concVars >>

\* the scorers of utils/simplifyLegalText.js and of
\* controllers/docAIController.js applied to one text
ApplyScorers ==
  /\ fn = "none"
  /\ val' = [utils |-> calculateReadabilityScore(arg),
             controller |-> docAICalculateReadabilityScore(arg)]
  /\ fn' = "both calculateReadabilityScore"
  /\ UNCHANGED << arg, again, simplifiedSentences, orchVars, concVars >>

NextScore == ApplyScore \/ ApplyScorers

SpecScore == InitScore /\ [][NextScore]_vars

-----------------------------------------------------------------------------
(* Inputs of breakDownLongSentences *)

\* the most phrases a segmented text is made of
MaxSegmentPhrases == 4

\* the phrases a segmented text is made of
SegmentPhrases ==
  { <<LongWord>>, <<"x">>, <<" ">>, <<".">>,
    <<",", " ", "and", " ">>, <<",", " ", "but", " ">> }

SegmentInputs ==
  UNION { { Concat(ps) : ps \in [1..n -> SegmentPhrases] } : n \in 0..MaxSegmentPhrases }

InitSegment == InitPure(SegmentInputs)

ApplySegment ==
  /\ fn = "none"
  /\ simplifiedSentences' = SimplifiedSentences(arg)
  /\ val' = JoinSpace(simplifiedSentences')
  /\ fn' = "breakDownLongSentences"
  /\ UNCHANGED << arg, again, orchVars, concVars >>

NextSegment == ApplySegment

SpecSegment == InitSegment /\ [][NextSegment]_vars

-----------------------------------------------------------------------------
(* Inputs of countSyllables *)

\* the most pieces a counted word is made of
MaxWordPieces == 4

\* the pieces a counted word is made of
WordPieces == { "a", "e", "y", "l", "d", "s", "BE", "cat", "beautiful" }

SyllableInputs == UNION { [1..n -> WordPieces] : n \in 0..MaxWordPieces }

InitSyllables == InitPure(SyllableInputs)

ApplySyllables ==
  /\ fn = "none"
  /\ val' = countSyllables(Chars(arg))
  /\ fn' = "countSyllables"
  /\ UNCHANGED << arg, again, simplifiedSentences, orchVars, concVars >>

NextSyllables == ApplySyllables

SpecSyllables == InitSyllables /\ [][NextSyllables]_vars

-----------------------------------------------------------------------------
(* Inputs of the term pass of basicSimplification *)

\* the most phrases a text given to the term pass is made of
MaxTermPhrases == 3

\* the phrases a text given to the term pass is made of
TermPhrases ==
  { <<"hereby">>, <<"prior">>, <<"PRIOR">>, <<"w">>, <<"abouts">>, <<"é">>, <<" ">> }

TermInputs ==
  UNION { { Concat(ps) : ps \in [1..n -> TermPhrases] } : n \in 0..MaxTermPhrases }

InitTerms == InitPure(TermInputs)

\* the forEach over the entries of legalTermsMap
ApplyTerms ==
  /\ fn = "none"
  /\ val' = ReplaceTerms(arg, 1)
  /\ fn' = "replaceTerms"
  /\ UNCHANGED << arg, again, simplifiedSentences, orchVars, concVars >>

NextTerms == ApplyTerms

SpecTerms == InitTerms /\ [][NextTerms]_vars

-----------------------------------------------------------------------------
(* Concurrent calls: several simplifyLegalText / batchSimplifyTexts calls    *)
(* on one event loop, interleaved where they await their requests            *)

\* the number of concurrent calls
MaxCalls == 2

ConcurrentTexts ==
  { << <<"the", " ", "party", " ", "shall", " ", "comply", ".">> >>,
    << <<>>, <<" ", "prior", " ", "agreement">> >> }

ConcurrentOptions == { <<>>, "method" :> "ai" }

ConcurrentEnvs ==
  { [OPENAI_API_KEY |-> "sk-test", HUGGING_FACE_API_KEY |-> Undefined],
    [OPENAI_API_KEY |-> Undefined, HUGGING_FACE_API_KEY |-> "sk-test"] }

\* the settlements of a request of a concurrent call: a rejection, or a
\* response with the text of the provider
ConcurrentResponses(provider) ==
  { r \in Responses(provider) :
      ProviderOutcome(provider, r).type = "return" \/ r.settled = "rejected" }

\* the locals of a call about to start: a list of one text is a single
\* simplifyLegalText call, a longer one a batchSimplifyTexts call
NewCaller(ts, opts) ==
  [kind |-> IF Len(ts) = 1 THEN "simplify" ELSE "batch",
   texts |-> ts, options |-> opts, i |-> 0, pc |-> "call",
   basicResult |-> None, seen |-> <<>>, ret |-> <<>>, results |-> <<>>]

InitConcurrent ==
  /\ env \in ConcurrentEnvs
  /\ callers \in [1..MaxCalls -> {NewCaller(ts, opts) : ts \in ConcurrentTexts,
                                                       opts \in ConcurrentOptions}]
  /\ net = {}
  /\ kind = None /\ texts = <<>> /\ options = <<>> /\ i = 0
  /\ results = <<>> /\ pc = "idle" /\ basicResult = None /\ inflight = {}
  /\ sent = <<>> /\ ranBasic = {} /\ answers = <<>> /\ ret = <<>>
  /\ PureIdle

\* the locals of the call l after its running simplifyLegalText settles
\* with outcome, having seen response
Settled(l, response, outcome) ==
  [l EXCEPT !.ret = Append(@, outcome),
            !.seen = Append(@, response),
            !.results = IF l.kind = "batch"
                        THEN Append(@, BatchEntry(l.i, l.texts[l.i + 1], outcome))
                        ELSE @,
            !.i = @ + 1,
            !.pc = IF l.i + 1 < Len(l.texts) THEN "call" ELSE "done"]

\* the provider a call asks, None when it asks none
ProviderAsked(opts, e) ==
  IF Branch(Method(opts)) = "basic" THEN None
  ELSE IF Branch(Method(opts)) = "ai"
       THEN IF Truthy(ProviderKey(e, AiModeProvider(opts))) THEN AiModeProvider(opts) ELSE None
  ELSE HybridProvider(e)

\* the call c runs from its start to its return, its throw or its await
ConcurrentCall(c) ==
  LET l == callers[c]
      text == l.texts[l.i + 1]
      branch == Branch(Method(l.options))
      basic == IF branch = "hybrid" /\ ~NoText(text)
               THEN basicSimplification(text) ELSE l.basicResult
      provider == ProviderAsked(l.options, env)
      outcome == IF NoText(text)
                 THEN SimplificationFailed("No text provided for simplification")
                 ELSE IF branch = "basic" THEN Result(text, l.options, basicSimplification(text))
                 ELSE IF branch = "ai"
                      THEN SimplificationFailed(KeyMissing(AiModeProvider(l.options)).message)
                 ELSE Result(text, l.options, basic)
  IN  /\ l.pc = "call"
      /\ IF NoText(text) \/ provider = None
         THEN /\ callers' = [callers EXCEPT ![c] =
                   Settled([l EXCEPT !.basicResult = basic], None, outcome)]
              /\ net' = net
         ELSE /\ callers' = [callers EXCEPT ![c] = [l EXCEPT !.basicResult = basic, !.pc = "await"]]
              /\ net' = net \cup {[caller |-> c, provider |-> provider,
                                   text |-> IF branch = "hybrid" THEN basic ELSE text]}
      /\ UNCHANGED << orchVars, pureVars >>

\* OwnBasicResult with basicResult declared at module level: the resumed
\* call reads what the last hybrid call still waiting has written
SharedBasicResult(c) ==
  LET waiting == {d \in 1..MaxCalls : /\ callers[d].pc = "await"
                                      /\ Branch(Method(callers[d].options)) = "hybrid"}
  IN  IF waiting = {} THEN callers[c].basicResult
      ELSE callers[CHOOSE d \in waiting : \A o \in waiting : o <= d].basicResult

\* the basicResult the resumed call c reads: the const of its own activation
OwnBasicResult(c) == callers[c].basicResult

\* the request of the call c settles and the call runs to its end
ConcurrentResume(c) ==
  /\ \E req \in net : \E response \in ConcurrentResponses(req.provider) :
       /\ req.caller = c
       /\ callers[c].pc = "await"
       /\ net' = net \ {req}
       /\ callers' = [callers EXCEPT ![c] =
            Settled(callers[c], response,
                    AfterRemote(callers[c].texts[callers[c].i + 1], callers[c].options,
                                req.provider, response, OwnBasicResult(c)))]
  /\ UNCHANGED << orchVars, pureVars >>

NextConcurrent == \E c \in 1..MaxCalls : ConcurrentCall(c) \/ ConcurrentResume(c)

SpecConcurrent == InitConcurrent /\ [][NextConcurrent]_vars

-----------------------------------------------------------------------------
(* Inputs of basicSimplification that tell the order of its stages *)

\* the most copies of a word in a text
MaxRepeat == 4

RECURSIVE Repeat(_, _)
Repeat(p, n) == IF n = 0 THEN <<>> ELSE p \o Repeat(p, n - 1)

\* one sentence of n copies of a word after nothing or a word of 130
\* characters, with or without a marker: the term "hereby" grows by 10
\* characters when replaced, the term "notwithstanding" shrinks by 8, "x" is
\* no term
RepeatInputs ==
  { head \o Repeat(<<w, " ">>, n) \o tail :
      head \in { <<>>, <<MidWord, " ">> },
      w \in {"hereby", "notwithstanding", "x"},
      n \in 0..MaxRepeat,
      tail \in { <<",", " ", "and", " ", "x">>, <<"x">> } }

\* texts in which a replacement makes the text of another rule
ChainInputs ==
  { <<"pursuant", " ", "for", " ", "the", " ", "purpose", " ", "of", " ", "x">>,
    <<"subject", " ", "to", " ", "the", " ", "provisions", " ", "of", " ",
      "the", " ", "event", " ", "that", " ", "x">> }

InitOrder == InitPure(RepeatInputs \cup ChainInputs)

SpecOrder == InitOrder /\ [][NextBasic]_vars

-----------------------------------------------------------------------------
(* Inputs of basicSimplification with modal verbs *)

\* the most phrases a text with modal verbs is made of
MaxModalPhrases == 3

\* the phrases a text with modal verbs is made of
ModalPhrases ==
  { <<"shall">>, <<"Shall">>, <<"mar">>, <<"mar", "Shall", " ">>, <<" ">>,
    <<"be", " ", "deemed", " ", "to", " ", "be">>,
    <<"may", " ", "not">>, <<"may", " ", " ", "not">>, <<"may", "\n", "not">> }

\* Example 1 of the documentation
Example1 ==
  <<"The", " ", "party", " ", "shall", ",", " ", "notwithstanding", " ", "any", " ",
    "prior", " ", "agreement", ",", " ", "heretofore", " ", "comply", ".">>

ModalInputs ==
  {Example1} \cup
    UNION { { Concat(ps) : ps \in [1..n -> ModalPhrases] } : n \in 0..MaxModalPhrases }

InitModal == InitPure(ModalInputs)

SpecModal == InitModal /\ [][NextBasic]_vars

-----------------------------------------------------------------------------
(* getSimplificationSuggestions *)

\* regex.test(text) with new RegExp(`\\b${legalTerm}\\b`, 'gi')
TermFound(t, term) == \E p \in 1..Len(t) : WordMatchAt(t, term, p)

\* description of a terminology suggestion, the template and its two terms
TerminologyDescription(legalTerm, simpleTerm) ==
  << "Replace legal jargon \"", legalTerm, "\" with simpler term \"", simpleTerm, "\"" >>

\* Object.entries(legalTermsMap).forEach from the entry k on
RECURSIVE TerminologySuggestions(_, _)
TerminologySuggestions(t, k) ==
  IF k > Len(legalTermsMap) THEN <<>>
  ELSE (IF TermFound(t, legalTermsMap[k][1])
        THEN << [type |-> "terminology",
                 original |-> legalTermsMap[k][1],
                 suggestion |-> legalTermsMap[k][2],
                 description |-> TerminologyDescription(legalTermsMap[k][1],
                                                        legalTermsMap[k][2])] >>
        ELSE <<>>)
       \o TerminologySuggestions(t, k + 1)

\* the length over which a sentence is suggested for breaking down
SuggestionLength == 150

\* sentences.forEach from the element of index index on
RECURSIVE SentenceLengthSuggestions(_, _)
SentenceLengthSuggestions(sentences, index) ==
  IF index >= Len(sentences) THEN <<>>
  ELSE (IF Length(Trim(sentences[index + 1])) > SuggestionLength
        THEN << [type |-> "sentence_length",
                 sentence |-> Trim(sentences[index + 1]),
                 position |-> index + 1,
                 description |-> "This sentence is very long and could be broken down into shorter ones"] >>
        ELSE <<>>)
       \o SentenceLengthSuggestions(sentences, index + 1)

\* the alternation (is|are|was|were|being|been)
PassiveAuxiliaries == {"is", "are", "was", "were", "being", "been"}

\* the last position of the run of whitespace that starts at p (p - 1 if none)
RECURSIVE SpaceRunEnd(_, _)
SpaceRunEnd(t, p) ==
  IF p >= 1 /\ p <= Len(t) /\ t[p] \in WhiteSpace THEN SpaceRunEnd(t, p + 1) ELSE p - 1

\* /\b(is|are|was|were|being|been)\s+\w+ed\b/gi matches at p: the position
\* of the end of the match, else 0
PassiveVoiceEnd(t, p) ==
  LET s == SpaceRunEnd(t, p + 1)
      q == WordRunEnd(t, s + 1)
  IN  IF /\ p <= Len(t)
         /\ Lower(t[p]) \in PassiveAuxiliaries
         /\ Boundary(t, p)
         /\ s >= p + 1
         /\ MatchesWordEd(t, s + 1, q)
      THEN q ELSE 0

\* text.match(passiveVoicePattern): the number of the matches from p on
RECURSIVE PassiveMatches(_, _)
PassiveMatches(t, p) ==
  IF p > Len(t) THEN 0
  ELSE IF PassiveVoiceEnd(t, p) # 0 THEN 1 + PassiveMatches(t, PassiveVoiceEnd(t, p) + 1)
  ELSE PassiveMatches(t, p + 1)

PassiveVoiceSuggestions(t) ==
  IF PassiveMatches(t, 1) > 0
  THEN << [type |-> "passive_voice",
           count |-> PassiveMatches(t, 1),
           description |-> "Consider converting passive voice to active voice for better clarity"] >>
  ELSE <<>>

\* a text that is not a string is tested as the string "undefined", then
\* its split throws
getSimplificationSuggestions(text) ==
  IF text = UndefinedText
  THEN Throw("Cannot read properties of undefined (reading 'split')")
  ELSE Return(TerminologySuggestions(text, 1)
              \o SentenceLengthSuggestions(SplitRuns(text, SentenceEnd, 1, <<>>), 0)
              \o PassiveVoiceSuggestions(text))

\* the number of phrases of a text given to getSimplificationSuggestions
MaxSuggestPhrases == 3

SuggestPhrases ==
  { <<"hereby">>, <<"PRIOR">>, <<"é">>, <<" ">>, <<".">>,
    <<"was", " ", "deemed", " ">>, <<"deemed">>, <<"was", "\n">>,
    <<LongWord, " ", "of", " ">> }

SuggestInputs ==
  {UndefinedText} \cup
  UNION { { Concat(ps) : ps \in [1..n -> SuggestPhrases] } : n \in 0..MaxSuggestPhrases }

InitSuggest == InitPure(SuggestInputs)

ApplySuggest ==
  /\ fn = "none"
  /\ val' = getSimplificationSuggestions(arg)
  /\ fn' = "getSimplificationSuggestions"
  /\ UNCHANGED << arg, again, simplifiedSentences, orchVars, concVars >>

NextSuggest == ApplySuggest

SpecSuggest == InitSuggest /\ [][NextSuggest]_vars

-----------------------------------------------------------------------------
(* Vocabulary of the properties *)

\* the simplifyLegalText calls that have returned or thrown, by position in texts
Finished == 1..Len(ret)

\* the positions in sent of the requests issued for the call of texts[k]
RequestsOf(k) == {n \in 1..Len(sent) : sent[n].item = k - 1}

\* the positions in answers of the settlements seen by the call of texts[k]
AnswersOf(k) == {n \in 1..Len(answers) : answers[n].item = k - 1}

\* a text that is missing, empty or made of whitespace only
Blank(t) == t = UndefinedText \/ \A n \in 1..Len(t) : t[n] \in WhiteSpace

\* a settlement that is a failure of the remote call: a rejection, or a
\* response without the text field the provider function reads
RemoteFailure(a) ==
  \/ a.response.settled = "rejected"
  \/ /\ a.response.settled = "resolved"
     /\ IF a.provider = "openai"
        THEN "choices" \notin DOMAIN a.response.data
        ELSE a.response.data = <<>> \/ "summary_text" \notin DOMAIN a.response.data[1]

\* the branch the options select, read off the options object
Mode == IF "method" \in DOMAIN options /\ options.method \in {"basic", "ai"}
        THEN options.method ELSE "hybrid"

KeySet(v) == v \notin {Undefined, ""}

\* term occurs in t as a standalone word or phrase, case-insensitively
Occurs(t, term) ==
  \E p \in 1..Len(t) :
    /\ p + Len(term) - 1 <= Len(t)
    /\ \A k \in 1..Len(term) : Lower(t[p + k - 1]) = term[k]
    /\ (p = 1 \/ ~IsWordAtom(t[p - 1]))
    /\ (p + Len(term) > Len(t) \/ ~IsWordAtom(t[p + Len(term)]))

\* the number of whitespace-delimited non-empty tokens of t
RECURSIVE TokenCount(_, _)
TokenCount(t, p) ==
  IF p > Len(t) THEN 0
  ELSE (IF t[p] \notin WhiteSpace /\ (p = 1 \/ t[p - 1] \in WhiteSpace) THEN 1 ELSE 0)
         + TokenCount(t, p + 1)

-----------------------------------------------------------------------------
(* C1 *)

\* C1: in hybrid mode, when the remote call of a non-blank text rejects or
\* returns a malformed response, the call still returns, and its
\* simplifiedText is the trimmed output of basicSimplification(text)
C1_HybridNeverFails ==
  \A k \in Finished : \A n \in AnswersOf(k) :
    (Mode = "hybrid" /\ ~Blank(texts[k]) /\ RemoteFailure(answers[n]))
      => /\ ret[k].type = "return"
         /\ ret[k].value.simplifiedText = Trim(basicSimplification(texts[k]))

-----------------------------------------------------------------------------
(* C2 *)

C2_Provider == IF "aiProvider" \in DOMAIN options /\ options.aiProvider = "huggingface"
               THEN "huggingface" ELSE "openai"

C2_KeyAbsent ==
  IF C2_Provider = "openai" THEN ~KeySet(env.OPENAI_API_KEY)
  ELSE ~KeySet(env.HUGGING_FACE_API_KEY)

C2_Prefix ==
  IF C2_Provider = "openai" THEN "Text simplification failed: AI simplification failed: "
  ELSE "Text simplification failed: Hugging Face simplification failed: "

C2_KeyMessage ==
  IF C2_Provider = "openai" THEN "OpenAI API key not configured"
  ELSE "Hugging Face API key not configured"

\* C2: in ai mode a call whose provider key is absent throws the provider's
\* "key not configured" error without sending a request, a call whose
\* request is rejected throws an error carrying the rejection message, a
\* malformed response makes it throw too, and none of them runs the basic
\* pipeline
C2_AiModeFails ==
  \A k \in Finished :
    (Mode = "ai" /\ ~Blank(texts[k]))
      => /\ (k - 1) \notin ranBasic
         /\ \A n \in RequestsOf(k) : sent[n].provider = C2_Provider
         /\ C2_KeyAbsent =>
              /\ ret[k] = [type |-> "throw", message |-> C2_Prefix \o C2_KeyMessage]
              /\ RequestsOf(k) = {}
         /\ \A n \in AnswersOf(k) :
              /\ RemoteFailure(answers[n]) => ret[k].type = "throw"
              /\ answers[n].response.settled = "rejected" =>
                   ret[k].message = C2_Prefix \o answers[n].response.message

\* an ai-mode call to Hugging Face has thrown after its request was rejected
C2_Witness ==
  \E k \in Finished :
    /\ Mode = "ai" /\ ~Blank(texts[k]) /\ ret[k].type = "throw"
    /\ \E n \in AnswersOf(k) : answers[n].response.settled = "rejected"
    /\ C2_Provider = "huggingface"

-----------------------------------------------------------------------------
(* C3 *)

\* C3: whatever the method and the keys, a call with a missing, empty or
\* whitespace-only text throws the validation error, runs no stage of the
\* basic pipeline and sends no request
C3_BlankTextRejected ==
  \A k \in Finished :
    Blank(texts[k])
      => /\ ret[k] = [type |-> "throw",
                      message |-> "Text simplification failed: No text provided for simplification"]
         /\ (k - 1) \notin ranBasic
         /\ RequestsOf(k) = {}

\* a whitespace-only text was rejected in ai mode with the provider key set
C3_Witness ==
  \E k \in Finished :
    /\ texts[k] = <<" ", "\n">>
    /\ Mode = "ai"
    /\ ~C2_KeyAbsent
    /\ ret[k].type = "throw"

-----------------------------------------------------------------------------
(* C4 *)

\* C4: a batch pushes one entry per text, in order: entry k has index k - 1
\* and the text of item k, success and the fields of the result when the
\* call of item k returned, failure and the message when it threw; a blank
\* item fails with the validation message whatever its neighbours are, a
\* non-blank item of a basic-mode batch succeeds whatever its neighbours
\* are, and the batch returns with all its entries
C4_BatchIsolation ==
  kind = "batch" =>
    /\ Len(results) = Len(ret)
    /\ pc = "done" => Len(results) = Len(texts)
    /\ \A k \in 1..Len(results) :
         /\ results[k].index = k - 1
         /\ results[k].originalText = texts[k]
         /\ ret[k].type = "return" =>
              /\ results[k].success
              /\ results[k].simplifiedText = ret[k].value.simplifiedText
              /\ results[k].method = ret[k].value.method
              /\ results[k].wordCountReduction = ret[k].value.wordCountReduction
              /\ results[k].readabilityScore = ret[k].value.readabilityScore
         /\ ret[k].type = "throw" =>
              /\ ~results[k].success
              /\ results[k].error = ret[k].message
         /\ Blank(texts[k]) =>
              /\ ~results[k].success
              /\ results[k].error =
                   "Text simplification failed: No text provided for simplification"
         /\ (Mode = "basic" /\ ~Blank(texts[k])) =>
              /\ results[k].success
              /\ results[k].simplifiedText = Trim(basicSimplification(texts[k]))

\* a batch of three whose middle text is empty has returned success,
\* failure, success
C4_Witness ==
  /\ kind = "batch" /\ pc = "done" /\ Len(texts) = 3
  /\ texts[2] = <<>> /\ texts[1] # <<>> /\ texts[3] # <<>>
  /\ Len(results) = 3
  /\ results[1].success /\ ~results[2].success /\ results[3].success

-----------------------------------------------------------------------------
(* C5 *)

\* C5: in a batch at most one request is outstanding, the outstanding
\* request belongs to the item right after the recorded entries, no item
\* has started (run the pipeline or sent a request) before the entries of
\* all earlier items were recorded, and entries are in index order
C5_BatchSequential ==
  kind = "batch" =>
    /\ Cardinality(inflight) <= 1
    /\ \A r \in inflight : r.item = Len(results)
    /\ \A n \in 1..Len(sent) : sent[n].item <= Len(results)
    /\ \A m, n \in 1..Len(sent) : m < n => sent[m].item < sent[n].item
    /\ \A item \in ranBasic : item <= Len(results)
    /\ \A k \in 1..Len(results) : results[k].index = k - 1

\* the request of the third item is outstanding after two entries were recorded
C5_Witness ==
  /\ kind = "batch"
  /\ Len(results) = 2
  /\ \E r \in inflight : r.item = 2
  /\ Len(sent) = 3

-----------------------------------------------------------------------------
(* C6 *)

\* C6: every call issues at most one request, whatever the method and the
\* keys; in hybrid mode with the OpenAI key set every request goes to
\* OpenAI, so a failed OpenAI call is followed by no Hugging Face call
C6_AtMostOneRemoteCall ==
  /\ \A k \in 1..Len(texts) : Cardinality(RequestsOf(k)) <= 1
  /\ Len(answers) <= Len(sent)
  /\ (Mode = "hybrid" /\ KeySet(env.OPENAI_API_KEY)) =>
       \A n \in 1..Len(sent) : sent[n].provider = "openai"

\* a hybrid call with both keys set has finished after its OpenAI request failed
C6_Witness ==
  /\ Mode = "hybrid"
  /\ KeySet(env.OPENAI_API_KEY) /\ KeySet(env.HUGGING_FACE_API_KEY)
  /\ \E k \in Finished : \E n \in AnswersOf(k) :
       /\ RemoteFailure(answers[n])
       /\ Cardinality(RequestsOf(k)) = 1

-----------------------------------------------------------------------------
(* C7 *)

C7_Expected ==
  IF KeySet(env.OPENAI_API_KEY) THEN "openai"
  ELSE IF KeySet(env.HUGGING_FACE_API_KEY) THEN "huggingface"
  ELSE "local"

\* C7: in hybrid mode the requests go to OpenAI when its key is set,
\* otherwise to Hugging Face when its key is set, whatever aiProvider is;
\* with no key the call sends nothing and returns exactly the basic result;
\* no hybrid call throws a "key not configured" error
C7_HybridProviderByKeys ==
  Mode = "hybrid" =>
    /\ \A n \in 1..Len(sent) : sent[n].provider = C7_Expected
    /\ \A k \in Finished :
         ~Blank(texts[k]) =>
           /\ C7_Expected # "local" => Cardinality(RequestsOf(k)) = 1
           /\ C7_Expected = "local" =>
                /\ RequestsOf(k) = {}
                /\ ret[k].type = "return"
                /\ ret[k].value.simplifiedText = basicSimplification(texts[k])
           /\ ret[k].type = "throw" =>
                ret[k].message \notin
                  { "Text simplification failed: AI simplification failed: OpenAI API key not configured",
                    "Text simplification failed: Hugging Face simplification failed: Hugging Face API key not configured" }

\* a hybrid call asked OpenAI although aiProvider was huggingface and both
\* keys were set
C7_Witness ==
  /\ Mode = "hybrid"
  /\ "aiProvider" \in DOMAIN options /\ options.aiProvider = "huggingface"
  /\ KeySet(env.OPENAI_API_KEY) /\ KeySet(env.HUGGING_FACE_API_KEY)
  /\ \E k \in Finished : \E n \in RequestsOf(k) : sent[n].provider = "openai"

-----------------------------------------------------------------------------
(* C8 *)

\* C8: in basic mode no request is ever sent, whatever the keys and
\* aiProvider, and a non-blank text returns the trimmed output of
\* basicSimplification(text)
C8_BasicIsLocal ==
  Mode = "basic" =>
    /\ sent = <<>> /\ inflight = {}
    /\ \A k \in Finished :
         ~Blank(texts[k]) =>
           /\ ret[k].type = "return"
           /\ ret[k].value.simplifiedText = Trim(basicSimplification(texts[k]))

\* a basic-mode call has returned with both keys set and aiProvider huggingface
C8_Witness ==
  /\ Mode = "basic"
  /\ KeySet(env.OPENAI_API_KEY) /\ KeySet(env.HUGGING_FACE_API_KEY)
  /\ "aiProvider" \in DOMAIN options /\ options.aiProvider = "huggingface"
  /\ \E k \in Finished : ret[k].type = "return"

-----------------------------------------------------------------------------
(* C9 *)

\* C9: a term of the table that occurs in the input as a standalone word
\* or phrase does not occur as one in the output of basicSimplification
C9_TermAbsence ==
  fn # "none" =>
    \A k \in 1..Len(legalTermsMap) :
      Occurs(arg, legalTermsMap[k][1]) => ~Occurs(val, legalTermsMap[k][1])

-----------------------------------------------------------------------------
(* C10 *)

\* C10: the wordCountReduction of a returned result is
\* round((original - simplified) / original * 100) over the numbers of
\* whitespace-delimited non-empty tokens of the original text and of the
\* returned simplifiedText
C10_WordCountReduction ==
  \A k \in Finished :
    ret[k].type = "return" =>
      LET original == TokenCount(texts[k], 1)
          simplified == TokenCount(ret[k].value.simplifiedText, 1)
      IN  ret[k].value.wordCountReduction =
            (200 * (original - simplified) + original) \div (2 * original)

-----------------------------------------------------------------------------
(* C11 *)

\* a text without any character other than white space and sentence ends has
\* no word or no non-empty sentence
NoSentenceOrNoWord(t) == \A p \in 1..Len(t) : t[p] \in WhiteSpace \cup SentenceEnd

\* C11: calculateReadabilityScore returns an integer of 0..100 for every
\* text, and 0 for a text with no non-empty sentence or no word
C11_ScoreRange ==
  fn = "calculateReadabilityScore" =>
    /\ val \in 0..100
    /\ NoSentenceOrNoWord(arg) => val = 0

\* a text of sentence ends only (one word, no sentence) has been scored 0
C11_Witness ==
  /\ fn = "calculateReadabilityScore"
  /\ arg # <<>>
  /\ \A p \in 1..Len(arg) : arg[p] \in SentenceEnd
  /\ val = 0

-----------------------------------------------------------------------------
(* C12 *)

\* every sentence of t has at most 150 characters
ShortSentences(t) ==
  LET sentences == SplitRuns(t, SentenceEnd, 1, <<>>)
  IN  \A k \in 1..Len(sentences) : Length(sentences[k]) <= MaxSentenceLength

\* no term of the table occurs in t
NoTrackedTerm(t) == \A k \in 1..Len(legalTermsMap) : ~Occurs(t, legalTermsMap[k][1])

\* C12: for an input whose sentences have at most 150 characters and which
\* contains no term of the table, applying basicSimplification to its own
\* output changes nothing
C12_ConditionalIdempotence ==
  (fn = "basicSimplification twice" /\ ShortSentences(arg) /\ NoTrackedTerm(arg)) =>
    again = val

-----------------------------------------------------------------------------
(* C13 *)

\* t is one sentence: it has no sentence end
SingleSentence(t) == \A p \in 1..Len(t) : t[p] \notin SentenceEnd

\* the positions of t where the marker m occurs (a marker never overlaps itself)
MarkerPositions(t, m) ==
  {p \in 1..Len(t) : p + Len(m) - 1 <= Len(t) /\ SubSeq(t, p, p + Len(m) - 1) = m}

\* the listed markers that occur in t, by their place in the list
ListedIn(t) == {k \in 1..Len(conjunctions) : MarkerPositions(t, conjunctions[k]) # {}}

\* t without its white space
RECURSIVE Squeeze(_)
Squeeze(t) ==
  IF t = <<>> THEN <<>>
  ELSE IF Head(t) \in WhiteSpace THEN Squeeze(Tail(t)) ELSE <<Head(t)>> \o Squeeze(Tail(t))

\* the sentences ss without their final character, put back around the marker m
RECURSIVE Rejoin(_, _)
Rejoin(ss, m) ==
  IF ss = <<>> THEN <<>>
  ELSE IF Len(ss) = 1 THEN SubSeq(ss[1], 1, Len(ss[1]) - 1)
  ELSE SubSeq(ss[1], 1, Len(ss[1]) - 1) \o m \o Rejoin(Tail(ss), m)

\* the place in the list of the first listed marker that occurs in t
FirstListed(t) == CHOOSE k \in ListedIn(t) : \A m \in ListedIn(t) : k <= m

\* C13: a trimmed sentence of more than 150 characters that contains a
\* listed marker is split on every occurrence of the first marker of the
\* list that occurs in it, wherever it occurs, and on nothing else: k
\* occurrences give k + 1 sentences, each ending in ".", and the rest of the
\* sentence, other markers included, stays in the fragments
C13_SplitRule ==
  (/\ fn = "breakDownLongSentences"
   /\ SingleSentence(arg)
   /\ Length(Trim(arg)) > MaxSentenceLength
   /\ ListedIn(Trim(arg)) # {}) =>
    LET marker == conjunctions[FirstListed(Trim(arg))]
        occurrences == Cardinality(MarkerPositions(Trim(arg), marker))
    IN  /\ Len(simplifiedSentences) = occurrences + 1
        /\ \A k \in 1..Len(simplifiedSentences) :
             simplifiedSentences[k][Len(simplifiedSentences[k])] = "."
        /\ Squeeze(Rejoin(simplifiedSentences, marker)) = Squeeze(Trim(arg))

\* a long sentence with ", but " ahead of its one ", and " has been split in
\* two, at the ", and "
C13_Witness ==
  /\ fn = "breakDownLongSentences"
  /\ SingleSentence(arg)
  /\ Length(Trim(arg)) > MaxSentenceLength
  /\ \E p \in MarkerPositions(Trim(arg), conjunctions[2]) :
       MarkerPositions(Trim(arg), conjunctions[1]) = {p + Len(conjunctions[2]) + 1}
  /\ Len(simplifiedSentences) = 2
  /\ Includes(simplifiedSentences[1], <<",", " ", "but">>)

-----------------------------------------------------------------------------
(* C14 *)

\* C14: every sentence pushed by breakDownLongSentences is text that is not
\* blank followed by one ".": none is just "."
C14_NoEmptySentence ==
  fn = "breakDownLongSentences" =>
    \A k \in 1..Len(simplifiedSentences) :
      LET sentence == simplifiedSentences[k]
      IN  /\ sentence[Len(sentence)] = "."
          /\ Len(Trim(SubSeq(sentence, 1, Len(sentence) - 1))) > 0

-----------------------------------------------------------------------------
(* C15 *)

\* the lower-cased word without its silent suffix and its leading "y"
Stripped(word) == StripLeadingY(StripSuffix(Chars(word)))

\* the positions of w where a maximal run of vowels starts
RunStarts(w) == {p \in 1..Len(w) : w[p] \in Vowels /\ (p = 1 \/ w[p - 1] \notin Vowels)}

\* the start of the maximal run of vowels the vowel at p is in
RunStartOf(w, p) == CHOOSE q \in RunStarts(w) : q <= p /\ \A r \in RunStarts(w) : r <= p => r <= q

\* the vowels of w at an even distance of the start of their run: one of
\* two for every pair of a run, one more for a run of odd length
PairStarts(w) == {p \in 1..Len(w) : w[p] \in Vowels /\ (p - RunStartOf(w, p)) % 2 = 0}

AtLeastOne(n) == IF n = 0 THEN 1 ELSE n

\* C15 as stated: countSyllables is 1 for a word of at most 3 characters,
\* and else the number of maximal runs of vowels of the stripped word, 1 at
\* least
C15_MaximalRuns ==
  fn = "countSyllables" =>
    val = IF Len(Chars(arg)) <= 3 THEN 1
          ELSE AtLeastOne(Cardinality(RunStarts(Stripped(arg))))

\* C15 as amended: countSyllables is 1 for a word of at most 3 characters,
\* and else, over the maximal runs of vowels of the stripped word, the
\* number of pairs of a run plus one for a run of odd length, 1 at least
C15_VowelPairs ==
  fn = "countSyllables" =>
    val = IF Len(Chars(arg)) <= 3 THEN 1
          ELSE AtLeastOne(Cardinality(PairStarts(Stripped(arg))))

\* "beautiful", with its run of three vowels, has been counted 4
C15_Witness ==
  /\ fn = "countSyllables"
  /\ arg = <<"beautiful">>
  /\ Cardinality(RunStarts(Stripped(arg))) = 3
  /\ val = 4

-----------------------------------------------------------------------------
(* C16 *)

\* the options with preserveStructure the other way round
OtherStructure(opts) == ("preserveStructure" :> ~PreserveStructure(opts)) @@ opts

\* the settlement the call that ends in this step has seen, None when it
\* sent no request
SettlementSeen ==
  IF Len(answers') > Len(answers) THEN answers'[Len(answers')].response ELSE None

\* the step ends a simplifyLegalText call
CallEnds == Len(ret') > Len(ret)

\* C16: a call returns or throws exactly what the same call, with the same
\* text, method, keys and provider response, returns or throws with
\* preserveStructure the other way round
C16_PreserveStructureNoOp ==
  [][CallEnds =>
       ret'[Len(ret')] = SimplifyLegalText(texts[Len(ret')], OtherStructure(options), env,
                                           SettlementSeen)]_vars

\* a call with preserveStructure false has returned the answer of a provider
C16_Witness ==
  /\ "preserveStructure" \in DOMAIN options /\ ~options.preserveStructure
  /\ \E k \in Finished :
       /\ ret[k].type = "return"
       /\ AnswersOf(k) # {}
       /\ ret[k].value.simplifiedText # Trim(texts[k])

-----------------------------------------------------------------------------
(* C17 *)

\* a letter, accented or not (or another word character)
Letter(a) == IsWordAtom(a) \/ a \in {"à", "À", "é"}

\* term occurs in t at position p with a letter of the same word right
\* before it or right after it
InsideWord(t, term, p) ==
  /\ MatchAt(t, term, p)
  /\ \/ p > 1 /\ Letter(t[p - 1])
     \/ p + Len(term) <= Len(t) /\ Letter(t[p + Len(term)])

\* C17: the term pass replaces whole words and phrases only: a text in
\* which every occurrence of a term has a letter of the same word before or
\* after it comes out unchanged
C17_WholeWordsOnly ==
  (/\ fn = "replaceTerms"
   /\ \A k \in 1..Len(legalTermsMap) : \A p \in 1..Len(arg) :
        MatchAt(arg, legalTermsMap[k][1], p) => InsideWord(arg, legalTermsMap[k][1], p)) =>
    val = arg

-----------------------------------------------------------------------------
(* C18 *)

\* the simplifyLegalText call of the caller c that ends in this step
\* returns or throws what the call alone does with the same text, options,
\* keys and provider response, and the entry a batch pushes for it is the
\* entry of that outcome
C18_EndsAsAlone(c) ==
  LET k == Len(callers'[c].ret)
  IN  k > Len(callers[c].ret) =>
        /\ callers'[c].ret[k] =
             SimplifyLegalText(callers[c].texts[k], callers[c].options, env,
                               callers'[c].seen[k])
        /\ callers[c].kind = "batch" =>
             callers'[c].results[k] = BatchEntry(k - 1, callers[c].texts[k], callers'[c].ret[k])

\* C18: calls interleaved where they await their requests do not interfere:
\* each call ends as the call running alone does, and no step of a call
\* changes the configuration
C18_NoInterference ==
  [][(\A c \in DOMAIN callers : C18_EndsAsAlone(c)) /\ env' = env]_vars

\* a hybrid call has fallen back to its own basic result after its request
\* was rejected, while the request of another call, sent for another text,
\* was still in flight
C18_Witness ==
  \E c \in DOMAIN callers : \E req \in net :
    /\ req.caller # c
    /\ callers[c].kind = "simplify"
    /\ callers[c].pc = "done"
    /\ Branch(Method(callers[c].options)) = "hybrid"
    /\ HybridProvider(env) # None
    /\ callers[c].seen[1].settled = "rejected"
    /\ callers[c].ret[1].type = "return"
    /\ Branch(Method(callers[req.caller].options)) = "hybrid"
    /\ req.text # callers[c].basicResult

-----------------------------------------------------------------------------
(* C19 *)

\* the provider aiProvider alone selects: OpenAI unless it is "huggingface"
C19_Selected ==
  IF "aiProvider" \in DOMAIN options /\ options.aiProvider = "huggingface"
  THEN "huggingface" ELSE "openai"

C19_SelectedKey ==
  IF C19_Selected = "openai" THEN env.OPENAI_API_KEY ELSE env.HUGGING_FACE_API_KEY

C19_KeyMessage ==
  IF C19_Selected = "openai"
  THEN "Text simplification failed: AI simplification failed: OpenAI API key not configured"
  ELSE "Text simplification failed: Hugging Face simplification failed: Hugging Face API key not configured"

\* the requests of a call without method go where those of a hybrid call
\* go; those of an ai call go to the provider aiProvider selects: one
\* request when the key of that provider is set, and else none and the
\* "key not configured" error of that provider
C19_Routing ==
  /\ "method" \notin DOMAIN options =>
       \A n \in 1..Len(sent) : sent[n].provider = C7_Expected
  /\ Mode = "ai" =>
       /\ \A n \in 1..Len(sent) : sent[n].provider = C19_Selected
       /\ \A k \in Finished :
            ~Blank(texts[k]) =>
              IF KeySet(C19_SelectedKey)
              THEN Cardinality(RequestsOf(k)) = 1
              ELSE /\ RequestsOf(k) = {}
                   /\ ret[k].type = "throw"
                   /\ ret[k].message = C19_KeyMessage

\* a call without method ends as the call with method "hybrid" does
C19_DefaultMethod ==
  ("method" \notin DOMAIN options /\ CallEnds) =>
    ret'[Len(ret')] = SimplifyLegalText(texts[Len(ret')], ("method" :> "hybrid") @@ options,
                                        env, SettlementSeen)

\* C19: a call without method does exactly what the call with method
\* "hybrid" does; in ai mode every request goes to the provider aiProvider
\* selects, OpenAI when aiProvider is omitted, whatever keys are set
C19_DefaultsAndRouting == [](C19_Routing) /\ [][C19_DefaultMethod]_vars

\* a call without method and without aiProvider has returned, as method
\* "hybrid", the answer of the provider it asked
C19_Witness ==
  /\ DOMAIN options \cap {"method", "aiProvider"} = {}
  /\ \E k \in Finished :
       /\ ret[k].type = "return"
       /\ ret[k].value.method = "hybrid"
       /\ \E n \in AnswersOf(k) : ~RemoteFailure(answers[n])

-----------------------------------------------------------------------------
(* C20 *)

\* the step sends a request
RequestSent == Len(sent') > Len(sent)

\* the request sent in this step
NewRequest == sent'[Len(sent')]

\* the request a hybrid call sends carries the output of the basic pipeline,
\* which has run on the text of the call by then; the request an ai call
\* sends carries the text of the call as given
C20_Payload ==
  RequestSent =>
    /\ Mode = "hybrid" =>
         /\ NewRequest.item \in ranBasic'
         /\ NewRequest.text = basicSimplification(texts[NewRequest.item + 1])
    /\ Mode = "ai" => NewRequest.text = texts[NewRequest.item + 1]

\* C20: in hybrid mode a request is sent only once the basic pipeline has
\* run on the text of its call, and carries the output of the pipeline; in
\* ai mode a request carries the text of its call as given, and the basic
\* pipeline never runs
C20_LocalBeforeRemote == [](Mode = "ai" => ranBasic = {}) /\ [][C20_Payload]_vars

\* a hybrid call has sent a request whose text is not the text it was given
C20_Witness ==
  /\ Mode = "hybrid"
  /\ \E n \in 1..Len(sent) :
       /\ sent[n].item \in ranBasic
       /\ sent[n].text # texts[sent[n].item + 1]

-----------------------------------------------------------------------------
(* C21 *)

\* the number of atoms of t that are a, in any casing
CountAtoms(t, a) == Cardinality({p \in 1..Len(t) : Lower(t[p]) = a})

\* the length of the one sentence t once its terms are replaced, when the
\* terms of t are "hereby" and "notwithstanding" standing alone
LengthAfterTerms(t) ==
  Length(Trim(t)) + 10 * CountAtoms(t, "hereby") - 8 * CountAtoms(t, "notwithstanding")

\* C21: basicSimplification replaces the terms, then applies the pattern
\* rules in their order, each on the result of the replacements before it,
\* then breaks down the sentences, then normalizes: a sentence with one
\* marker comes out as two sentences exactly when it has more than 150
\* characters after the replacements, a term made by a pattern rule stays,
\* and so does the text of an earlier rule made by a later one
C21_StageOrder ==
  fn # "none" =>
    /\ arg \in RepeatInputs =>
         CountAtoms(val, ".") =
           IF LengthAfterTerms(arg) > MaxSentenceLength /\ Includes(arg, conjunctions[1])
           THEN 2 ELSE 1
    /\ arg = <<"pursuant", " ", "for", " ", "the", " ", "purpose", " ", "of", " ", "x">> =>
         val = <<"pursuant", " ", "to", " ", "x", ".">>
    /\ Includes(arg, <<"subject", " ", "to", " ", "the", " ", "provisions", " ", "of">>) =>
         val = <<"following", " ", "the", " ", "rules", " ", "in", " ",
                 "the", " ", "event", " ", "that", " ", "x", ".">>

\* a sentence of at most 150 characters that has more once "hereby" is
\* replaced has been split at its marker
C21_Witness ==
  /\ fn = "basicSimplification"
  /\ arg \in RepeatInputs
  /\ Length(Trim(arg)) <= MaxSentenceLength
  /\ LengthAfterTerms(arg) > MaxSentenceLength
  /\ CountAtoms(val, ".") = 2

-----------------------------------------------------------------------------
(* C22 *)

\* every sentence of t is kept: at most 150 characters once trimmed, or
\* without any listed marker
KeepCase(t) ==
  LET sentences == SplitRuns(t, SentenceEnd, 1, <<>>)
  IN  \A k \in 1..Len(sentences) :
        \/ Length(Trim(sentences[k])) <= MaxSentenceLength
        \/ ListedIn(Trim(sentences[k])) = {}

\* the sentences of t that are not blank, each trimmed and given a "."
KeptSentences(t) ==
  LET sentences == NonBlank(SplitRuns(t, SentenceEnd, 1, <<>>))
  IN  [k \in 1..Len(sentences) |-> Trim(sentences[k]) \o <<".">>]

\* t from position p on without its white space, every run of sentence ends
\* written as one ".", and a "." after text that no run ends
RECURSIVE EveryRunOneDot(_, _, _)
EveryRunOneDot(t, p, text) ==
  IF p > Len(t) THEN (IF text THEN <<".">> ELSE <<>>)
  ELSE IF t[p] \in SentenceEnd
       THEN (IF p > 1 /\ t[p - 1] \in SentenceEnd THEN <<>> ELSE <<".">>)
              \o EveryRunOneDot(t, p + 1, FALSE)
  ELSE IF t[p] \in WhiteSpace THEN EveryRunOneDot(t, p + 1, text)
  ELSE <<t[p]>> \o EveryRunOneDot(t, p + 1, TRUE)

\* the same with the runs that end no text left out: text tells whether
\* there is text since the last run
RECURSIVE TextRunOneDot(_, _, _)
TextRunOneDot(t, p, text) ==
  IF p > Len(t) THEN (IF text THEN <<".">> ELSE <<>>)
  ELSE IF t[p] \in SentenceEnd
       THEN (IF text THEN <<".">> ELSE <<>>) \o TextRunOneDot(t, p + 1, FALSE)
  ELSE IF t[p] \in WhiteSpace THEN TextRunOneDot(t, p + 1, text)
  ELSE <<t[p]>> \o TextRunOneDot(t, p + 1, TRUE)

\* the sentences ss from the last one back, one space between two of them
RECURSIVE OneSpaceBetween(_)
OneSpaceBetween(ss) ==
  IF ss = <<>> THEN <<>>
  ELSE IF Len(ss) = 1 THEN ss[1]
  ELSE OneSpaceBetween(SubSeq(ss, 1, Len(ss) - 1)) \o <<" ">> \o ss[Len(ss)]

\* what C22 says apart from the runs of sentence ends: kept sentences come
\* out unchanged with a "." appended, the fragments of a split are not
\* split again, and the sentences are joined with one space
C22_KeepAndJoin ==
  /\ KeepCase(arg) => simplifiedSentences = KeptSentences(arg)
  /\ (SingleSentence(arg) /\ ~KeepCase(arg)) =>
       Len(simplifiedSentences) =
         Cardinality(MarkerPositions(Trim(arg), conjunctions[FirstListed(Trim(arg))])) + 1
  /\ val = OneSpaceBetween(simplifiedSentences)

\* C22 as stated: the keep rule, no second split, one space between
\* sentences, and every run of ".", "!", "?" of the input replaced by one "."
C22_EveryRunOneDot ==
  fn = "breakDownLongSentences" =>
    /\ C22_KeepAndJoin
    /\ KeepCase(arg) => Squeeze(val) = EveryRunOneDot(arg, 1, FALSE)

\* C22 as amended: the keep rule, no second split, one space between
\* sentences, and every run of ".", "!", "?" that ends text which is not
\* blank replaced by one ".", the other runs left out
C22_KeepRule ==
  fn = "breakDownLongSentences" =>
    /\ C22_KeepAndJoin
    /\ KeepCase(arg) => Squeeze(val) = TextRunOneDot(arg, 1, FALSE)

\* a text that starts with a sentence end and goes on with a sentence of
\* more than 150 characters without a marker has come out as that sentence
C22_Witness ==
  /\ fn = "breakDownLongSentences"
  /\ arg # <<>> /\ arg[1] \in SentenceEnd
  /\ KeepCase(arg)
  /\ Len(simplifiedSentences) = 1
  /\ Length(simplifiedSentences[1]) > MaxSentenceLength + 1
  /\ val[1] \notin SentenceEnd

-----------------------------------------------------------------------------
(* C23 *)

\* the positions of t where the word w stands alone, in any casing
Standalone(t, w) ==
  {p \in 1..Len(t) : /\ Lower(t[p]) = w
                     /\ (p = 1 \/ ~IsWordAtom(t[p - 1]))
                     /\ (p = Len(t) \/ ~IsWordAtom(t[p + 1]))}

\* the output has no "shall", alone or in a longer word, and the output of
\* Example 1 has "will", "despite" and "before this" and none of
\* "notwithstanding", "heretofore"
C23_NoShall ==
  /\ \A p \in 1..Len(val) : Lower(val[p]) # "shall"
  /\ arg = Example1 =>
       /\ Occurs(val, <<"will">>) /\ Occurs(val, <<"despite">>)
       /\ Occurs(val, <<"before", " ", "this">>)
       /\ \A p \in 1..Len(val) : Lower(val[p]) \notin {"notwithstanding", "heretofore"}

\* C23 as stated: the output of basicSimplification has no "shall" in any
\* casing, not even in a longer word, every standalone "shall" of the input
\* is a "will" of the output, and Example 1 comes out as documented
C23_EveryShallIsWill ==
  fn # "none" =>
    /\ C23_NoShall
    /\ Cardinality(Standalone(val, "will")) = Cardinality(Standalone(arg, "shall"))

\* the standalone "shall" of t that do not start "shall be deemed to be"
ShallNotDeemed(t) ==
  {p \in Standalone(t, "shall") : ~MatchAt(t, sentencePatterns[1][1], p)}

\* C23 as amended: the output of basicSimplification has no "shall" in any
\* casing, not even in a longer word, every standalone "shall" of the input
\* that does not start "shall be deemed to be" is a "will" of the output,
\* and Example 1 comes out as documented
C23_ShallIsWillUnlessDeemed ==
  fn # "none" =>
    /\ C23_NoShall
    /\ Cardinality(Standalone(val, "will")) = Cardinality(ShallNotDeemed(arg))

\* a text with a "Shall" inside a longer word and a standalone "shall" has
\* come out with a "will" inside the word and a standalone "will"
C23_Witness ==
  /\ fn = "basicSimplification"
  /\ \E p \in 1..Len(arg) : arg[p] = "Shall" /\ p \notin Standalone(arg, "shall")
  /\ Cardinality(Standalone(arg, "shall")) = 1
  /\ \E q \in 1..Len(val) : val[q] = "will" /\ q \notin Standalone(val, "will")
  /\ Cardinality(Standalone(val, "will")) = 1

-----------------------------------------------------------------------------
(* C24 *)

\* C24: the output of basicSimplification has no "may not" in any casing,
\* also when the two words of the input are apart by several spaces or a
\* line break
C24_NoMayNot ==
  fn # "none" =>
    \A p \in 1..Len(val) : ~MatchAt(val, <<"may", " ", "not">>, p)

-----------------------------------------------------------------------------
(* C25 *)

\* C25: calculateReadabilityScore of utils/simplifyLegalText.js and
\* calculateReadabilityScore of controllers/docAIController.js return the
\* same score for every text
C25_ScorersAgree ==
  fn = "both calculateReadabilityScore" => val.utils = val.controller

-----------------------------------------------------------------------------
(* C26 *)

\* the method the caller passed, "hybrid" when it passed none
C26_Passed == IF "method" \in DOMAIN options THEN options.method ELSE "hybrid"

\* C26: the method of a returned result is the method the caller passed, or
\* "hybrid" when it passed none, whatever path was taken: also when the
\* request failed or no key was set and the basic result came back; a
\* method other than "basic", "ai", "hybrid" runs as hybrid (the basic
\* pipeline, then the provider the keys select) and is reported as passed
C26_MethodEchoed ==
  /\ \A k \in Finished : ret[k].type = "return" => ret[k].value.method = C26_Passed
  /\ C26_Passed \notin {"basic", "ai", "hybrid"} =>
       /\ \A n \in 1..Len(sent) : sent[n].provider = C7_Expected /\ sent[n].item \in ranBasic
       /\ \A k \in Finished :
            ~Blank(texts[k]) =>
              /\ k - 1 \in ranBasic
              /\ C7_Expected # "local" => RequestsOf(k) # {}

\* a call with a method of no branch has returned the basic result, under
\* the method as passed, after its request failed
C26_Witness ==
  /\ C26_Passed \notin {"basic", "ai", "hybrid"}
  /\ \E k \in Finished :
       /\ ret[k].type = "return"
       /\ ret[k].value.method = C26_Passed
       /\ \E n \in AnswersOf(k) : RemoteFailure(answers[n])

-----------------------------------------------------------------------------
(* C27 *)

\* C27: the word count reduction of every returned result is an integer,
\* never NaN or an infinity: the word count of a text that passed the
\* validation, the divisor, is at least 1, also when the simplified text
\* is empty
C27_ReductionIsInteger ==
  \A k \in Finished :
    ret[k].type = "return" =>
      /\ SplitWordCount(texts[k]) >= 1
      /\ ret[k].value.wordCountReduction \in Int

\* a text of punctuation only has returned with an empty simplified text
C27_Witness ==
  \E k \in Finished :
    /\ ret[k].type = "return"
    /\ texts[k] = <<".", ".">>
    /\ ret[k].value.simplifiedText = <<>>
    /\ ret[k].value.wordCountReduction = 0

-----------------------------------------------------------------------------
(* C28 *)

C28_ProviderPrefix ==
  IF C2_Provider = "openai" THEN "AI simplification failed: "
  ELSE "Hugging Face simplification failed: "

\* the messages of the errors a response without the expected fields raises
C28_MalformedCauses ==
  { C28_ProviderPrefix \o "Cannot read properties of undefined (reading '0')",
    C28_ProviderPrefix \o "Cannot read properties of undefined (reading 'message')",
    C28_ProviderPrefix \o "Cannot read properties of undefined (reading 'summary_text')",
    "Cannot read properties of undefined (reading 'trim')" }

\* the messages the error under a rejection of the call of text can carry,
\* seen being the settlement of its request if it asked a provider
C28_Underlying(text, asked, seen) ==
  IF Blank(text) THEN {"No text provided for simplification"}
  ELSE IF ~asked THEN {C28_ProviderPrefix \o C2_KeyMessage}
  ELSE IF seen.settled = "rejected" THEN {C28_ProviderPrefix \o seen.message}
  ELSE C28_MalformedCauses

\* C28: a call that throws, whatever the cause (validation, missing key,
\* failure of the request in ai mode), throws one error whose message is
\* "Text simplification failed: " followed by the message of the cause; the
\* texts, the options and the environment are as they were before, and in a
\* batch this message is the error of the entry of the item, marked failed
C28_RejectionMessage ==
  [][(CallEnds /\ ret'[Len(ret')].type = "throw") =>
       /\ Len(ret') = Len(ret) + 1
       /\ \E u \in C28_Underlying(texts[Len(ret')], Len(answers') > Len(answers),
                                     SettlementSeen) :
            ret'[Len(ret')] = [type |-> "throw",
                               message |-> "Text simplification failed: " \o u]
       /\ texts' = texts /\ options' = options /\ env' = env
       /\ kind = "batch" =>
            /\ Len(results') = Len(ret')
            /\ results'[Len(ret')] = [index |-> Len(ret), success |-> FALSE,
                                      error |-> ret'[Len(ret')].message,
                                      originalText |-> texts[Len(ret')]]]_vars

\* a batch in ai mode holds the failed entry of an item whose request was
\* rejected
C28_Witness ==
  /\ kind = "batch" /\ Mode = "ai"
  /\ \E k \in Finished :
       /\ ret[k].type = "throw"
       /\ \E n \in AnswersOf(k) : answers[n].response.settled = "rejected"
       /\ k <= Len(results)
       /\ ~results[k].success
       /\ results[k].error = ret[k].message

-----------------------------------------------------------------------------
(* C29 *)

\* the positions of the suggestions of one type in the list s
C29_OfType(s, type) == {j \in 1..Len(s) : s[j].type = type}

\* the term occurs in t as a whole word or phrase: no letter of the same
\* word right before it or right after it
C29_WholeWord(t, term) ==
  \E p \in 1..Len(t) : MatchAt(t, term, p) /\ ~InsideWord(t, term, p)

C29_TermIndex(term) == CHOOSE k \in 1..Len(legalTermsMap) : legalTermsMap[k][1] = term

C29_Segments(t) == SplitRuns(t, SentenceEnd, 1, <<>>)

\* the list s is what the text t calls for, wholeWord telling which terms
\* occur in it
C29_Expected(t, s, wholeWord(_, _)) ==
  LET T == C29_OfType(s, "terminology")
      S == C29_OfType(s, "sentence_length")
      P == C29_OfType(s, "passive_voice")
      starts == {p \in 1..Len(t) : PassiveVoiceEnd(t, p) # 0}
  IN  /\ T \cup S \cup P = 1..Len(s)
      /\ \A j \in T : \A n \in S \cup P : j < n
      /\ \A j \in S : \A n \in P : j < n
      /\ \A k \in 1..Len(legalTermsMap) :
           Cardinality({j \in T : s[j].original = legalTermsMap[k][1]})
             = IF wholeWord(t, legalTermsMap[k][1]) THEN 1 ELSE 0
      /\ \A j \in T :
           /\ s[j].suggestion = legalTermsMap[C29_TermIndex(s[j].original)][2]
           /\ \A n \in T : j < n => C29_TermIndex(s[j].original) < C29_TermIndex(s[n].original)
      /\ \A n \in 1..Len(C29_Segments(t)) :
           Cardinality({j \in S : s[j].position = n})
             = IF Length(Trim(C29_Segments(t)[n])) > 150 THEN 1 ELSE 0
      /\ \A j \in S :
           /\ s[j].sentence = Trim(C29_Segments(t)[s[j].position])
           /\ \A n \in S : j < n => s[j].position < s[n].position
      /\ Cardinality(P) = IF starts = {} THEN 0 ELSE 1
      /\ \A j \in P : s[j].count = Cardinality(starts)

\* C29: getSimplificationSuggestions returns, for every text, without
\* throwing: one terminology suggestion for each term of the table that
\* occurs in the text as a whole word and none for the others, in the order
\* of the table; then one sentence_length suggestion for each segment of
\* more than 150 characters, in the order of the text, with its position
\* counted from 1; then at most one passive_voice suggestion, whose count is
\* the number of passive matches
C29_Suggestions ==
  (fn = "getSimplificationSuggestions" /\ arg # UndefinedText) =>
    /\ val.type = "return"
    /\ C29_Expected(arg, val.value, C29_WholeWord)

-----------------------------------------------------------------------------
(* C30 *)

\* the call, or the batch with an entry for every text, is over
C30_Over ==
  /\ pc = "done"
  /\ Len(ret) = Len(texts)
  /\ kind = "batch" =>
       /\ Len(results) = Len(texts)
       /\ \A k \in 1..Len(texts) : results[k].index = k - 1

\* a request is unanswered: its call is suspended, has not ended, and no
\* item after it has started
C30_Blocked ==
  /\ pc = "await"
  /\ Len(ret) = i
  /\ Len(results) = IF kind = "batch" THEN i ELSE 0
  /\ \A n \in 1..Len(sent) : sent[n].item <= i

\* C30: if every request sent is eventually resolved or rejected, every
\* simplifyLegalText call ends, and a batch of n texts ends with n entries;
\* and as long as a request is unanswered its call and every later item of
\* the batch wait: the only step that can happen is the settlement of that
\* request, no timeout ends the wait (the steps of the code are the steps
\* the fairness conditions are about)
C30_Termination ==
  /\ <>C30_Over
  /\ [](inflight # {} => C30_Blocked)
  /\ [][/\ inflight # {} =>
             /\ Len(answers') = Len(answers) + 1
             /\ answers'[Len(answers')].item = i
        /\ Runs <=> RunsStep
        /\ RemoteSettles <=> SettleStep]_vars

\* a batch of several texts is over after two of its requests were answered
C30_Witness ==
  /\ kind = "batch"
  /\ C30_Over
  /\ Len(texts) >= 2
  /\ Len(answers) >= 2

====
